---- MODULE Spec2Model ----
(***************************************************************************)
(* Model of the evalFramework evaluation pipeline (manishhkr/deepeval):    *)
(* orchestrator.py and the method_* stages it runs, the standalone         *)
(* External Metrics Merge, and the pure helpers the stages rely on.        *)
(*                                                                         *)
(* Conventions                                                             *)
(*  - A Python dict is a function whose DOMAIN is the set of keys present. *)
(*  - A Python value is a tagged tuple: Null, Bool(b), Num(n), Str(s),     *)
(*    Map(d).  A str is a sequence of one-character strings.               *)
(*  - A float is a fixed-point integer in units of 1/Scale.                *)
(*  - A file is [exists, rows]; rows is the sequence of records it holds.  *)
(***************************************************************************)
EXTENDS Integers, Sequences, FiniteSets, TLC

VARIABLES
    table,          \* the input sheet read by method_1 (rows of cells)
    args,           \* orchestrator CLI arguments [threshold, deepeval_threshold]
    provider,       \* environment: PROVIDER and whether its settings are present
    scenariosJson,  \* scenarios.json
    scenariosJsonl, \* scenarios.jsonl
    answersJsonl,   \* responses.jsonl
    answersJson,    \* responses.json
    resultsJsonl,   \* results.jsonl
    resultsJson,    \* results.json
    reportHtml,     \* report_offline.html
    emailSent,      \* whether send_report_email delivered the message
    metricsXlsx,    \* the metrics sheet the External Metrics Merge was run with
    pc,             \* position of orchestrator.main
    outcome,        \* per stage: "notrun", "ok", "fatal" or "rowerror"
    calls,          \* per stage: the row indices for which the external call was made / raised
    wrote,          \* per stage: the Result keys the stage has assigned
    fn              \* pure-function harness: [name, in, out]

vars == <<table, args, provider, scenariosJson, scenariosJsonl, answersJsonl,
          answersJson, resultsJsonl, resultsJson, reportHtml, emailSent, metricsXlsx, pc,
          outcome, calls, wrote, fn>>

pipelineVars == <<table, args, provider, scenariosJson, scenariosJsonl, answersJsonl,
          answersJson, resultsJsonl, resultsJson, reportHtml, emailSent, metricsXlsx, pc,
          outcome, calls, wrote>>

-----------------------------------------------------------------------------
(* Bounds of the model *)

\* most rows in the input sheet
MaxRows == 2
\* longest embedding vector drawn for cosine
MaxVecLen == 2
\* largest raw judge score drawn for _normalize_score, in whole units
MaxRawScore == 12

\* fixed-point unit: a float f is the integer f * Scale
Scale == 10 * 10

-----------------------------------------------------------------------------
(* Python values *)

Null == <<"null">>
Bool(b) == <<"bool", b>>
Num(n) == <<"num", n>>
Str(s) == <<"str", s>>
Map(d) == <<"map", d>>
List(l) == <<"list", l>>

IsNull(v) == v[1] = "null"
IsBool(v) == v[1] = "bool"
IsNum(v) == v[1] = "num"
IsStr(v) == v[1] = "str"
IsMap(v) == v[1] = "map"
IsList(v) == v[1] = "list"

\* Python truthiness (`if v:`)
Truthy(v) ==
    CASE IsNull(v) -> FALSE
      [] IsBool(v) -> v[2]
      [] IsNum(v) -> v[2] # 0
      [] IsStr(v) -> v[2] # <<>>
      [] IsMap(v) -> DOMAIN v[2] # {}
      [] IsList(v) -> v[2] # <<>>

\* `a or b`
PyOr(a, b) == IF Truthy(a) THEN a ELSE b

EmptyDict == [k \in {} |-> Null]

\* d.get(k, default)
Get(d, k, default) == IF k \in DOMAIN d THEN d[k] ELSE default

\* {**d, **u} and d.update(u)
Update(d, u) == [k \in DOMAIN d \cup DOMAIN u |-> IF k \in DOMAIN u THEN u[k] ELSE d[k]]

Max2(a, b) == IF a >= b THEN a ELSE b
Min2(a, b) == IF a <= b THEN a ELSE b

RECURSIVE SumSeq(_)
SumSeq(s) == IF s = <<>> THEN 0 ELSE Head(s) + SumSeq(Tail(s))

\* floor of the square root, by bisection on [lo, hi]
RECURSIVE ISqrtIn(_, _, _)
ISqrtIn(n, lo, hi) ==
    IF lo >= hi THEN lo
    ELSE LET mid == (lo + hi + 1) \div 2
         IN IF mid * mid <= n THEN ISqrtIn(n, mid, hi) ELSE ISqrtIn(n, lo, mid - 1)

\* math.sqrt of the integer n, as a fixed-point float
FSqrt(n) == ISqrtIn(n * Scale * Scale, 0, (n + 1) * Scale)

-----------------------------------------------------------------------------
(* method_4_score_embeddings.cosine *)

\* zip(a, b) stops at the shorter vector
ZipLen(a, b) == Min2(Len(a), Len(b))

cosine_asymmetric(a, b) ==
    LET dot == SumSeq([i \in 1..ZipLen(a, b) |-> a[i] * b[i]])
        na == FSqrt(SumSeq([i \in 1..Len(a) |-> a[i] * a[i]]))
        nb == FSqrt(SumSeq([i \in 1..Len(b) |-> b[i] * b[i]]))
    IN IF na # 0 /\ nb # 0 THEN (dot * Scale * Scale * Scale) \div (na * na) ELSE 0

cosine(a, b) ==
    LET dot == SumSeq([i \in 1..ZipLen(a, b) |-> a[i] * b[i]])
        na == FSqrt(SumSeq([i \in 1..Len(a) |-> a[i] * a[i]]))
        nb == FSqrt(SumSeq([i \in 1..Len(b) |-> b[i] * b[i]]))
    IN IF na # 0 /\ nb # 0 THEN (dot * Scale * Scale * Scale) \div (na * nb) ELSE 0

-----------------------------------------------------------------------------
(* method_6_score._normalize_score *)

\* float(score): a number converts, None raises (signalled by Null)
PyFloat(score) == IF IsNum(score) THEN score ELSE Null

Clamp01(s) == Max2(0, Min2(Scale, s))

_normalize_score_ge(score) ==
    LET f == PyFloat(score)
    IN IF IsNull(f) THEN Null
       ELSE IF f[2] >= Scale THEN Num(Clamp01(f[2] \div 10))
       ELSE Num(Clamp01(f[2]))

_normalize_score(score) ==
    LET f == PyFloat(score)
    IN IF IsNull(f) THEN Null
       ELSE IF f[2] > Scale THEN Num(Clamp01(f[2] \div 10))
       ELSE Num(Clamp01(f[2]))

-----------------------------------------------------------------------------
(* Python str operations, on sequences of characters *)

Whitespace == {" ", "\t", "\n", "\r"}

UpperToLower ==
    [c \in {"A", "B", "C", "D", "E", "F", "G", "H", "I", "J", "K", "L", "M",
            "N", "O", "P", "Q", "R", "S", "T", "U", "V", "W", "X", "Y", "Z"} |->
        CASE c = "A" -> "a" [] c = "B" -> "b" [] c = "C" -> "c" [] c = "D" -> "d"
          [] c = "E" -> "e" [] c = "F" -> "f" [] c = "G" -> "g" [] c = "H" -> "h"
          [] c = "I" -> "i" [] c = "J" -> "j" [] c = "K" -> "k" [] c = "L" -> "l"
          [] c = "M" -> "m" [] c = "N" -> "n" [] c = "O" -> "o" [] c = "P" -> "p"
          [] c = "Q" -> "q" [] c = "R" -> "r" [] c = "S" -> "s" [] c = "T" -> "t"
          [] c = "U" -> "u" [] c = "V" -> "v" [] c = "W" -> "w" [] c = "X" -> "x"
          [] c = "Y" -> "y" [] c = "Z" -> "z"]

\* s.lower()
Lower(s) == [i \in 1..Len(s) |-> IF s[i] \in DOMAIN UpperToLower THEN UpperToLower[s[i]] ELSE s[i]]

RECURSIVE LStrip(_)
LStrip(s) == IF s # <<>> /\ Head(s) \in Whitespace THEN LStrip(Tail(s)) ELSE s

RECURSIVE RStrip(_)
RStrip(s) == IF s # <<>> /\ s[Len(s)] \in Whitespace THEN RStrip(SubSeq(s, 1, Len(s) - 1)) ELSE s

\* s.strip()
Strip(s) == RStrip(LStrip(s))

IsPrefix(p, s) == Len(p) <= Len(s) /\ SubSeq(s, 1, Len(p)) = p

\* s.replace(old, new), old non-empty: leftmost non-overlapping occurrences
RECURSIVE Replace(_, _, _)
Replace(s, old, new) ==
    IF s = <<>> THEN <<>>
    ELSE IF IsPrefix(old, s) THEN new \o Replace(SubSeq(s, Len(old) + 1, Len(s)), old, new)
    ELSE <<Head(s)>> \o Replace(Tail(s), old, new)

\* the characters as one key name
RECURSIVE ToStr(_)
ToStr(s) == IF s = <<>> THEN "" ELSE Head(s) \o ToStr(Tail(s))

Digits == <<"0", "1", "2", "3", "4", "5", "6", "7", "8", "9">>

\* str(n) of a non-negative int
RECURSIVE IntToStr(_)
IntToStr(n) == IF n < 10 THEN <<Digits[n + 1]>> ELSE IntToStr(n \div 10) \o <<Digits[(n % 10) + 1]>>

\* str(v) of a sheet cell
NaN == <<"nan">>
PyStr(v) ==
    CASE IsStr(v) -> v[2]
      [] IsNum(v) -> IntToStr(v[2])
      [] v = NaN -> <<"n", "a", "n">>
      [] OTHER -> <<"N", "o", "n", "e">>

-----------------------------------------------------------------------------
(* Files *)

NoFile == [exists |-> FALSE, rows |-> <<>>]
File(rows) == [exists |-> TRUE, rows |-> rows]

Stages == {"step1", "step2", "step3", "step4", "step6", "step7", "merge", "step5", "email"}

\* an external call that raised
Raise == <<"raise">>
IsRaise(o) == o[1] = "raise"

\* the outcome drawn for row i; only the rows that make the call have one
OutcomeAt(out, i) == IF i \in DOMAIN out THEN out[i] ELSE Raise

\* the first index of a set of row indices, 0 when the set is empty:
\* the row at which a loop stops when the rows of S raise
FirstIn(S) == IF S = {} THEN 0 ELSE CHOOSE i \in S : \A j \in S : i <= j

\* how many rows a loop over n rows completes when it stops at row k (0: never)
DoneCount(n, k) == IF k = 0 THEN n ELSE k - 1

\* {s["id"]: s for s in scenarios}: a later Scenario replaces an earlier one with its id
HasScenario(scens, id) == \E i \in 1..Len(scens) : scens[i]["id"] = id
ScenarioById(scens, id) ==
    LET last == CHOOSE i \in 1..Len(scens) :
                    /\ scens[i]["id"] = id
                    /\ \A j \in (i + 1)..Len(scens) : scens[j]["id"] # id
    IN scens[last]

-----------------------------------------------------------------------------
(* method_1_xlsx_to_json.run: Scenario Builder *)

ID_COL == "No."
PROMPT_COL == "Prompt"
\* orchestrator --reference-col and --sheet defaults
REFERENCE_COL == "Expected Response"
SheetName == <<"S", "V", "A", "-", "M", "i", "n", "i">>

BuildScenario(row, i) ==
    [id |-> Str(<<"M", "C", "P", "_">> \o PyStr(Get(row, ID_COL, Num(i)))),
     prompt |-> Str(Strip(PyStr(Get(row, PROMPT_COL, Str(<<>>))))),
     reference |-> Str(Strip(PyStr(Get(row, REFERENCE_COL, Str(<<>>))))),
     metadata |-> Map([sheet |-> Str(SheetName), row |-> Num(i - 1)])]

BuildScenarios(rows) == [i \in 1..Len(rows) |-> BuildScenario(rows[i], i)]

-----------------------------------------------------------------------------
(* method_2_json_to_jsonl.run: Scenario Flattener *)

FlattenScenario(s) ==
    [id |-> s["id"],
     input |-> s["prompt"],
     reference |-> Get(s, "reference", Null),
     metadata |-> Get(s, "metadata", Map(EmptyDict))]

-----------------------------------------------------------------------------
(* method_3_run_model.run: Answer Generator *)

\* PROVIDER and whether the settings it requires are in the environment
ProviderSupported(prov) == prov.name \in {"openai", "dataiku"}
ProviderConfigured(prov) == prov.name = "dataiku" => prov.configured

AnswerRow(s, answer, dt) ==
    [id |-> Get(s, "id", Null),
     prompt |-> PyOr(PyOr(Get(s, "prompt", Null), Get(s, "input", Null)), Str(<<>>)),
     answer |-> answer,
     timing_ms |-> Map([generation |-> dt]),
     metadata |-> Get(s, "metadata", Map(EmptyDict))]

\* what the responder does for one Scenario: raises, or returns text after dt ms
Answered(text, dt) == <<"answered", text, dt>>

\* the Answer rows of the Scenarios the loop completed
AnswerRows(scens, out, m) == [i \in 1..m |-> AnswerRow(scens[i], out[i][2], out[i][3])]

-----------------------------------------------------------------------------
(* method_3_run_model._extract_dataiku_text: the answer text of an enveloped
   response.  The dicts drawn here have at most one key, so the key order of
   json.dumps does not arise. *)

\* json.dumps of a str: quoted, with quote, backslash and newline escaped
RECURSIVE JsonEscape(_)
JsonEscape(s) ==
    IF s = <<>> THEN <<>>
    ELSE (CASE Head(s) = "\"" -> <<"\\", "\"">>
            [] Head(s) = "\\" -> <<"\\", "\\">>
            [] Head(s) = "\n" -> <<"\\", "n">>
            [] OTHER -> <<Head(s)>>) \o JsonEscape(Tail(s))

\* the characters of a dict key
KeyChars(k) ==
    CASE k = "matches" -> <<"m", "a", "t", "c", "h", "e", "s">>
      [] k = "document" -> <<"d", "o", "c", "u", "m", "e", "n", "t">>
      [] k = "answer" -> <<"a", "n", "s", "w", "e", "r">>
      [] k = "body" -> <<"b", "o", "d", "y">>
      [] k = "hallucination_success" -> <<"h", "a", "l", "l", "u", "c", "i", "n", "a", "t", "i", "o", "n", "_", "s", "u", "c", "c", "e", "s", "s">>
      [] k = "hallucination_reason" -> <<"h", "a", "l", "l", "u", "c", "i", "n", "a", "t", "i", "o", "n", "_", "r", "e", "a", "s", "o", "n">>

\* json.dumps(v, ensure_ascii=False) with the default separators
RECURSIVE JsonDumps(_)
RECURSIVE JsonDumpsItems(_)
JsonDumpsItems(l) ==
    IF l = <<>> THEN <<>>
    ELSE IF Len(l) = 1 THEN JsonDumps(l[1])
    ELSE JsonDumps(Head(l)) \o <<",", " ">> \o JsonDumpsItems(Tail(l))

JsonDumps(v) ==
    CASE IsNull(v) -> <<"n", "u", "l", "l">>
      [] IsBool(v) -> IF v[2] THEN <<"t", "r", "u", "e">> ELSE <<"f", "a", "l", "s", "e">>
      [] IsNum(v) -> IntToStr(v[2])
      [] IsStr(v) -> <<"\"">> \o JsonEscape(v[2]) \o <<"\"">>
      [] IsList(v) -> <<"[">> \o JsonDumpsItems(v[2]) \o <<"]">>
      [] IsMap(v) ->
            IF DOMAIN v[2] = {} THEN <<"{", "}">>
            ELSE LET k == CHOOSE key \in DOMAIN v[2] : TRUE
                 IN <<"{">> \o <<"\"">> \o KeyChars(k) \o <<"\"">> \o <<":", " ">> \o JsonDumps(v[2][k]) \o <<"}">>

\* the elements a "matches" list may hold: documents with text, blank, null or
\* missing text, a document that is a number, and an element that is not a dict
MatchElements ==
    {Map([document |-> Str(<<" ", "a", " ">>)]),
     Map([document |-> Str(<<" ">>)]),
     Map([document |-> Null]),
     Map([document |-> Num(5)]),
     Str(<<"x">>)}

\* longest "matches" list drawn
MaxMatches == 3

MatchLists == UNION {[1..n -> MatchElements] : n \in 0..MaxMatches}

\* longest "matches" list of documents with or without text: more than the five
\* that are read
MaxLongMatches == 6

\* n documents: the first k without text, the others with the texts "b" and "a" in turn
LongMatchList(n, k) ==
    [i \in 1..n |-> IF i <= k THEN Map([document |-> Str(<<" ">>)])
                    ELSE IF (i - k) % 2 = 1 THEN Map([document |-> Str(<<"b">>)])
                    ELSE Map([document |-> Str(<<" ", "a", " ">>)])]

LongMatchLists == {LongMatchList(n, k) : n \in (MaxMatches + 1)..MaxLongMatches, k \in 0..MaxLongMatches}

\* decoded payloads of every JSON type
JsonPayloads ==
    {Null, Bool(TRUE), Num(5), Str(<<"h", "i">>), List(<<>>), List(<<Num(5)>>), Map(EmptyDict),
     Map([matches |-> Str(<<"x">>)]), Map([answer |-> Str(<<"h", "i">>)])}
    \cup {Map([matches |-> List(l)]) : l \in MatchLists}

\* payloads with more matches than are read
LongPayloads == {Map([matches |-> List(l)]) : l \in LongMatchLists}

\* the values the bodies encode: a payload, or a payload encoded once more as a string
JsonValues == JsonPayloads \cup LongPayloads \cup {Str(JsonDumps(p)) : p \in JsonPayloads}

\* texts that are not JSON
NotJson == {<<"o", "o", "p", "s">>, <<"{">>, <<>>}

JsonError == <<"error">>

\* the encoding of each value
JsonTexts == [v \in JsonValues |-> JsonDumps(v)]

\* json.loads(text), for a text that is the encoding of a value of JsonValues or is
\* not JSON at all
JsonLoads(text) ==
    IF \E v \in JsonValues : JsonTexts[v] = text
    THEN CHOOSE v \in JsonValues : JsonTexts[v] = text
    ELSE JsonError

\* "\n\n".join(docs)
RECURSIVE Join(_)
Join(docs) ==
    IF docs = <<>> THEN <<>>
    ELSE IF Len(docs) = 1 THEN docs[1]
    ELSE Head(docs) \o <<"\n", "\n">> \o Join(Tail(docs))

\* (m.get("document") or "").strip() of one element; Raise when m is not a dict
\* or the document is a truthy non-str
DocumentOf(m) ==
    IF ~IsMap(m) THEN Raise
    ELSE LET d == PyOr(Get(m[2], "document", Null), Str(<<>>))
         IN IF ~IsStr(d) THEN Raise ELSE Str(Strip(d[2]))

RECURSIVE DocsOf(_)
DocsOf(ms) ==
    IF ms = <<>> THEN <<>>
    ELSE LET doc == DocumentOf(Head(ms))
         IN (IF doc[2] # <<>> THEN <<doc[2]>> ELSE <<>>) \o DocsOf(Tail(ms))

\* lines 125-135: the answer text of the decoded payload j
ExtractFromPayload(j) ==
    IF ~IsMap(j) THEN Raise
    ELSE LET matches == Get(j[2], "matches", Null)
         IN IF IsList(matches) /\ matches[2] # <<>>
            THEN LET top == SubSeq(matches[2], 1, Min2(5, Len(matches[2])))
                 IN IF \E k \in 1..Len(top) : IsRaise(DocumentOf(top[k])) THEN Raise
                    ELSE IF DocsOf(top) # <<>> THEN Str(Join(DocsOf(top)))
                    ELSE Str(JsonDumps(j))
            ELSE Str(JsonDumps(j))

\* lines 116-123: json.loads(body), and once more when that gives a str
DecodeBody(body) ==
    LET unquoted == JsonLoads(body)
    IN IF unquoted = JsonError THEN JsonError
       ELSE IF IsStr(unquoted) THEN JsonLoads(unquoted[2])
       ELSE unquoted

_extract_dataiku_text(resp_obj) ==
    IF IsNull(resp_obj) THEN Str(<<>>)
    ELSE IF IsStr(resp_obj) THEN resp_obj
    ELSE IF IsMap(resp_obj)
         THEN LET body == Get(resp_obj[2], "body", Str(<<>>))
              IN IF IsStr(body)
                 THEN IF DecodeBody(body[2]) = JsonError THEN body
                      ELSE ExtractFromPayload(DecodeBody(body[2]))
                 ELSE Str(JsonDumps(resp_obj))
    ELSE Str(PyStr(resp_obj))

-----------------------------------------------------------------------------
(* method_4_score_embeddings.run: Similarity Scorer *)

\* the two embeddings.create calls of one row: raise, or the two vectors
Embedded(e1, e2) == <<"embedded", e1, e2>>

SimVerdict_RefEmptyFails(ref, emb, threshold) ==
    IF Truthy(ref)
    THEN LET sim == cosine(emb[2], emb[3])
         IN [similarity |-> Num(sim), passed |-> Bool(sim >= threshold[2])]
    ELSE [similarity |-> Num(0), passed |-> Bool(FALSE)]

\* lines 69-75: sim and passed stay None unless the reference is truthy
SimVerdict(ref, emb, threshold) ==
    IF Truthy(ref)
    THEN LET sim == cosine(emb[2], emb[3])
         IN [similarity |-> Num(sim), passed |-> Bool(sim >= threshold[2])]
    ELSE [similarity |-> Null, passed |-> Null]

\* the keys lines 77-84 assign on top of the Answer
SimFields(a, scens, emb, threshold) ==
    LET sc == ScenarioById(scens, a["id"])
        ref == Get(sc, "reference", Null)
        v == SimVerdict(ref, emb, threshold)
    IN [prompt |-> Get(sc, "prompt", Str(<<>>)),
        reference |-> ref,
        similarity |-> v.similarity,
        threshold |-> threshold,
        passed |-> v.passed]

ScoreRow(a, scens, emb, threshold) == Update(a, SimFields(a, scens, emb, threshold))

\* the answers whose row makes the embedding calls
EmbedCalled(answers, scens) ==
    {i \in 1..Len(answers) :
        /\ HasScenario(scens, answers[i]["id"])
        /\ Truthy(Get(ScenarioById(scens, answers[i]["id"]), "reference", Null))}

\* the Results of the answers the loop completed: one per Answer line
ResultRows(answers, scens, out, threshold, m) ==
    [i \in 1..m |-> ScoreRow(answers[i], scens, OutcomeAt(out, i), threshold)]

-----------------------------------------------------------------------------
(* method_6_score.run: Judge Scorer *)

\* scenarios.get(sid, {}).get(key, default)
ScenarioGet(scens, sid, key, default) ==
    IF HasScenario(scens, sid) THEN Get(ScenarioById(scens, sid), key, default) ELSE default

\* metric.measure(tc) raises, or leaves metric.score
Measured(score) == <<"measured", score>>

JudgeVerdict_RaiseFails(reference, o, threshold) ==
    IF Truthy(reference)
    THEN IF IsRaise(o)
         THEN [deepeval_score |-> Null, deepeval_passed |-> Bool(FALSE)]
         ELSE LET sc == _normalize_score(o[2])
              IN [deepeval_score |-> sc,
                  deepeval_passed |-> Bool(~IsNull(sc) /\ sc[2] >= threshold[2])]
    ELSE [deepeval_score |-> Null, deepeval_passed |-> Null]

\* lines 103-120
JudgeVerdict(reference, o, threshold) ==
    IF Truthy(reference)
    THEN IF IsRaise(o)
         THEN [deepeval_score |-> Null, deepeval_passed |-> Null]
         ELSE LET sc == _normalize_score(o[2])
              IN [deepeval_score |-> sc,
                  deepeval_passed |-> Bool(~IsNull(sc) /\ sc[2] >= threshold[2])]
    ELSE [deepeval_score |-> Null, deepeval_passed |-> Null]

\* line 101: reference = r.get("reference") or scenarios.get(sid, {}).get("reference")
JudgeReference(r, scens) ==
    PyOr(Get(r, "reference", Null),
         ScenarioGet(scens, Get(r, "id", Str(<<>>)), "reference", Null))

\* the keys lines 122-127 assign on top of the Result
JudgeFields(r, scens, o, threshold) ==
    LET v == JudgeVerdict(JudgeReference(r, scens), o, threshold)
    IN [deepeval_score |-> v.deepeval_score,
        deepeval_threshold |-> threshold,
        deepeval_passed |-> v.deepeval_passed]

\* row2 = {**r, ...}
JudgeRow(r, scens, o, threshold) == Update(r, JudgeFields(r, scens, o, threshold))

-----------------------------------------------------------------------------
(* method_7_hallucination_tracebility: Grounding Judge *)

\* every value that is no boolean and no word for true becomes false
_as_bool_FalseOnUnknown(x) ==
    IF IsBool(x) THEN x
    ELSE IF IsStr(x) /\ Lower(Strip(x[2])) \in {<<"t", "r", "u", "e">>, <<"y", "e", "s">>, <<"y">>, <<"1">>}
    THEN Bool(TRUE)
    ELSE Bool(FALSE)

_as_bool(x) ==
    IF IsBool(x) THEN x
    ELSE IF IsStr(x)
    THEN LET t == Lower(Strip(x[2]))
         IN IF t \in {<<"t", "r", "u", "e">>, <<"y", "e", "s">>, <<"y">>, <<"1">>} THEN Bool(TRUE)
            ELSE IF t \in {<<"f", "a", "l", "s", "e">>, <<"n", "o">>, <<"n">>, <<"0">>} THEN Bool(FALSE)
            ELSE Null
    ELSE Null

JUDGE_MODEL == Str(<<"g", "p", "t", "-", "4", "o", "-", "m", "i", "n", "i">>)

\* client.responses.create raises, or the reply decodes (_extract_json(text) or {})
\* to the mapping data after latency ms
Replied(data, latency) == <<"replied", data, latency>>

\* (data.get(key) or "")
ReasonOrEmpty(data, key) == PyOr(Get(data, key, Null), Str(<<>>))

\* .strip() on a value that is no str raises AttributeError
ReasonRaises(data) ==
    \/ ~IsStr(ReasonOrEmpty(data, "hallucination_reason"))
    \/ ~IsStr(ReasonOrEmpty(data, "traceability_geval_reason"))

\* whether judge_hallucination_traceability raises for this row
GroundingRaises(o) == IsRaise(o) \/ ReasonRaises(o[2])

\* lines 118-125: the mapping the judge returns
Judgment(o) ==
    [hallucination_success |-> _as_bool(Get(o[2], "hallucination_success", Null)),
     hallucination_reason |-> Str(Strip(ReasonOrEmpty(o[2], "hallucination_reason")[2])),
     traceability_geval_success |-> _as_bool(Get(o[2], "traceability_geval_success", Null)),
     traceability_geval_reason |-> Str(Strip(ReasonOrEmpty(o[2], "traceability_geval_reason")[2])),
     judge_latency_ms |-> o[3],
     judge_model |-> JUDGE_MODEL]

\* the values a judge's reply may encode: objects with no field, with a flag or a
\* reason of every JSON type, and values that are no object
ReplyValues ==
    {Map(EmptyDict), Null, Num(5), Str(<<"h", "i">>), List(<<>>)}
    \cup {Map([hallucination_success |-> x]) :
             x \in {Bool(TRUE), Bool(FALSE), Str(<<"Y", "e", "s">>), Str(<<"m", "a", "y", "b", "e">>),
                    Num(1), Null, List(<<>>)}}
    \cup {Map([hallucination_reason |-> y]) :
             y \in {Str(<<" ", "o", "k", " ">>), Str(<<>>), Num(5), Num(0), Null, Bool(TRUE),
                    List(<<Num(5)>>), List(<<>>)}}
    \cup {List(<<Map([hallucination_success |-> Bool(TRUE)])>>)}

ReplyEncodings == [v \in ReplyValues |-> JsonDumps(v)]

\* json.loads(text) of a reply text
ReplyLoads(text) ==
    IF \E v \in ReplyValues : ReplyEncodings[v] = text
    THEN CHOOSE v \in ReplyValues : ReplyEncodings[v] = text
    ELSE JsonError

\* text.find(ch) and text.rfind(ch), 1-based, 0 when absent
Find(text, ch) ==
    IF \E i \in 1..Len(text) : text[i] = ch
    THEN CHOOSE i \in 1..Len(text) : text[i] = ch /\ \A j \in 1..(i - 1) : text[j] # ch
    ELSE 0

RFind(text, ch) ==
    IF \E i \in 1..Len(text) : text[i] = ch
    THEN CHOOSE i \in 1..Len(text) : text[i] = ch /\ \A j \in (i + 1)..Len(text) : text[j] # ch
    ELSE 0

_extract_json(text0) ==
    IF text0 = <<>> THEN Null
    ELSE LET text == Strip(text0)
             whole == ReplyLoads(text)
             start == Find(text, "{")
             end == RFind(text, "}")
         IN IF whole # JsonError /\ IsMap(whole) THEN whole
            ELSE IF start # 0 /\ end # 0 /\ end > start
                 THEN LET inner == ReplyLoads(SubSeq(text, start, end))
                      IN IF inner = JsonError THEN Null ELSE inner
                 ELSE Null

\* lines 115-125 on the reply text: data = _extract_json(text) or {}, then the
\* mapping returned, or Raise when a reason is a truthy value that is no str
judge_hallucination_traceability(text, latency) ==
    LET decoded == _extract_json(text)
        data == IF Truthy(decoded) THEN decoded[2] ELSE EmptyDict
    IN IF ReasonRaises(data) THEN Raise
       ELSE Map(Judgment(Replied(data, latency)))

GroundingEvaluated_ReferenceOnly(r) == Truthy(Get(r, "reference", Str(<<>>)))

\* line 155: rows with an empty reference or an empty answer are skipped
GroundingEvaluated(r) ==
    /\ Truthy(Get(r, "reference", Str(<<>>)))
    /\ Truthy(Get(r, "answer", Str(<<>>)))

GroundingRows_DropsSkipped(rows, out) ==
    LET RECURSIVE Build(_)
        Build(i) == IF i > Len(rows) THEN <<>>
                    ELSE IF GroundingEvaluated(rows[i])
                         THEN <<Update(rows[i], Judgment(out[i]))>> \o Build(i + 1)
                         ELSE Build(i + 1)
    IN Build(1)

\* lines 150-160: every row stays in the list, the evaluated ones updated in place
GroundingRows(rows, out) ==
    [i \in 1..Len(rows) |->
        IF GroundingEvaluated(rows[i]) THEN Update(rows[i], Judgment(out[i])) ELSE rows[i]]

-----------------------------------------------------------------------------
(* method_4_rag_quality_from_xlsx: External Metrics Merge *)

RECURSIVE CollapseSpaces(_)
\* re.sub(r"\s+", " ", s)
CollapseSpaces(s) ==
    IF s = <<>> THEN <<>>
    ELSE IF Head(s) \in Whitespace
         THEN <<" ">> \o CollapseSpaces(LStrip(s))
         ELSE <<Head(s)>> \o CollapseSpaces(Tail(s))

_norm(v) ==
    IF IsNull(v) THEN <<>>
    ELSE CollapseSpaces(Strip(Replace(Replace(PyStr(v), <<"\r">>, <<" ">>), <<"\n">>, <<" ">>)))

METRIC_COLUMNS == <<
    <<"C", "o", "n", "t", "e", "x", "t", "u", "a", "l", " ", "P", "r", "e", "c", "i", "s", "i", "o", "n", "_", "S", "c", "o", "r", "e">>,
    <<"C", "o", "n", "t", "e", "x", "t", "u", "a", "l", " ", "R", "e", "c", "a", "l", "l", "_", "S", "c", "o", "r", "e">>,
    <<"C", "o", "n", "t", "e", "x", "t", "u", "a", "l", " ", "R", "e", "l", "e", "v", "a", "n", "c", "y", "_", "S", "c", "o", "r", "e">>,
    <<"A", "n", "s", "w", "e", "r", " ", "R", "e", "l", "e", "v", "a", "n", "c", "y", "_", "S", "c", "o", "r", "e">>,
    <<"F", "a", "i", "t", "h", "f", "u", "l", "n", "e", "s", "s", "_", "S", "c", "o", "r", "e">>,
    <<"H", "a", "l", "l", "u", "c", "i", "n", "a", "t", "i", "o", "n", "_", "S", "c", "o", "r", "e">>,
    <<"m", "e", "t", "r", "i", "c", "_", "1">>,
    <<"T", "r", "a", "c", "e", "a", "b", "i", "l", "i", "t", "y", " ", "(", "G", "E", "v", "a", "l", ")", "_", "S", "c", "o", "r", "e">>,
    <<"C", "o", "n", "t", "e", "x", "t", "u", "a", "l", " ", "P", "r", "e", "c", "i", "s", "i", "o", "n", "_", "S", "u", "c", "c", "e", "s", "s">>,
    <<"C", "o", "n", "t", "e", "x", "t", "u", "a", "l", " ", "R", "e", "c", "a", "l", "l", "_", "S", "u", "c", "c", "e", "s", "s">>,
    <<"C", "o", "n", "t", "e", "x", "t", "u", "a", "l", " ", "R", "e", "l", "e", "v", "a", "n", "c", "y", "_", "S", "u", "c", "c", "e", "s", "s">>,
    <<"A", "n", "s", "w", "e", "r", " ", "R", "e", "l", "e", "v", "a", "n", "c", "y", "_", "S", "u", "c", "c", "e", "s", "s">>,
    <<"F", "a", "i", "t", "h", "f", "u", "l", "n", "e", "s", "s", "_", "S", "u", "c", "c", "e", "s", "s">>,
    <<"H", "a", "l", "l", "u", "c", "i", "n", "a", "t", "i", "o", "n", "_", "S", "u", "c", "c", "e", "s", "s">>,
    <<"T", "r", "a", "c", "e", "a", "b", "i", "l", "i", "t", "y", " ", "(", "G", "E", "v", "a", "l", ")", "_", "S", "u", "c", "c", "e", "s", "s">>,
    <<"C", "o", "n", "t", "e", "x", "t", "u", "a", "l", " ", "P", "r", "e", "c", "i", "s", "i", "o", "n", "_", "R", "e", "a", "s", "o", "n">>,
    <<"C", "o", "n", "t", "e", "x", "t", "u", "a", "l", " ", "R", "e", "c", "a", "l", "l", "_", "R", "e", "a", "s", "o", "n">>,
    <<"C", "o", "n", "t", "e", "x", "t", "u", "a", "l", " ", "R", "e", "l", "e", "v", "a", "n", "c", "y", "_", "R", "e", "a", "s", "o", "n">>,
    <<"A", "n", "s", "w", "e", "r", " ", "R", "e", "l", "e", "v", "a", "n", "c", "y", "_", "R", "e", "a", "s", "o", "n">>,
    <<"F", "a", "i", "t", "h", "f", "u", "l", "n", "e", "s", "s", "_", "R", "e", "a", "s", "o", "n">>,
    <<"H", "a", "l", "l", "u", "c", "i", "n", "a", "t", "i", "o", "n", "_", "R", "e", "a", "s", "o", "n">>,
    <<"T", "r", "a", "c", "e", "a", "b", "i", "l", "i", "t", "y", " ", "(", "G", "E", "v", "a", "l", ")", "_", "R", "e", "a", "s", "o", "n">>>>

_to_key(col) ==
    LET k1 == Lower(col)
        k2 == Replace(k1, <<" ", "(", "g", "e", "v", "a", "l", ")">>, <<"_", "g", "e", "v", "a", "l">>)
        k3 == Replace(k2, <<" ">>, <<"_">>)
        k4 == Replace(k3, <<"_", "_">>, <<"_">>)
        k5 == Replace(Replace(k4, <<"(">>, <<>>), <<")">>, <<>>)
    IN Replace(k5, <<"-">>, <<"_">>)

\* --prompt-col default
PROMPT_COL_XLSX == <<"I", "n", "p", "u", "t">>

\* the Result key of each catalog column
METRIC_KEYS == [i \in 1..Len(METRIC_COLUMNS) |-> ToStr(_to_key(METRIC_COLUMNS[i]))]

\* lines 93-96: payload[_to_key(c)] = r.get(c) for the catalog columns the sheet has,
\* in catalog order
RECURSIVE PayloadFrom(_, _, _)
PayloadFrom(r, columns, i) ==
    IF i = 0 THEN EmptyDict
    ELSE LET c == METRIC_COLUMNS[i]
             before == PayloadFrom(r, columns, i - 1)
         IN IF c \in columns
            THEN Update(before, [k \in {METRIC_KEYS[i]} |-> r[c]])
            ELSE before

Payload(r, columns) == PayloadFrom(r, columns, Len(METRIC_COLUMNS))

\* no metrics file given
NoSheet == [columns |-> {}, rows |-> <<>>]

ColFaithfulnessScore == METRIC_COLUMNS[5]
ColHallucinationSuccess == METRIC_COLUMNS[14]

\* metrics sheets: one whose prompt matches after normalization, one that matches
\* nothing, one with no catalog column, one without the prompt column
MetricsSheets ==
    {[columns |-> {PROMPT_COL_XLSX, ColFaithfulnessScore, ColHallucinationSuccess},
      rows |-> <<[c \in {PROMPT_COL_XLSX, ColFaithfulnessScore, ColHallucinationSuccess} |->
                    CASE c = PROMPT_COL_XLSX -> Str(<<" ", "2", "+", "2", "?", "\n">>)
                      [] c = ColFaithfulnessScore -> Num(90)
                      [] OTHER -> Bool(FALSE)]>>],
     [columns |-> {PROMPT_COL_XLSX, ColFaithfulnessScore},
      rows |-> <<[c \in {PROMPT_COL_XLSX, ColFaithfulnessScore} |->
                    IF c = PROMPT_COL_XLSX THEN Str(<<"H", "I">>) ELSE Num(10)]>>],
     [columns |-> {PROMPT_COL_XLSX},
      rows |-> <<[c \in {PROMPT_COL_XLSX} |-> Str(<<"2", "+", "2", "?">>)]>>],
     [columns |-> {ColFaithfulnessScore},
      rows |-> <<[c \in {ColFaithfulnessScore} |-> Num(90)]>>]}

\* lines 85-95: per sheet row, the normalized prompt and the payload kept under it
Lookup(sheet) ==
    [i \in 1..Len(sheet.rows) |->
        [p |-> _norm(sheet.rows[i][PROMPT_COL_XLSX]),
         payload |-> Payload(sheet.rows[i], sheet.columns)]]

Lookups == [sheet \in {sh \in MetricsSheets : PROMPT_COL_XLSX \in sh.columns} |-> Lookup(sheet)]

\* lookup.get(prompt): the payload of the last sheet row with that normalized
\* prompt (rows with a blank prompt are left out), None when there is none
LookupGet(sheet, prompt) ==
    LET lookup == Lookups[sheet]
        hits == {i \in 1..Len(lookup) : lookup[i].p # <<>> /\ lookup[i].p = prompt}
    IN IF hits = {} THEN Null
       ELSE Map(lookup[CHOOSE i \in hits : \A j \in hits : j <= i].payload)

\* lines 100-102: the normalized prompt a Result is looked up by
MergePrompt(row, scens) ==
    LET sid == Get(row, "id", Null)
        sc == IF Truthy(sid) /\ HasScenario(scens, sid) THEN ScenarioById(scens, sid) ELSE EmptyDict
    IN _norm(PyOr(PyOr(Get(row, "prompt", Null), Get(sc, "prompt", Null)), Str(<<>>)))

\* line 103: the payload merged into a Result, None or {} when it is skipped
MergePayload(row, scens, sheet) == LookupGet(sheet, MergePrompt(row, scens))

MergeRow_NullOnMiss(row, scens, sheet) ==
    LET payload == MergePayload(row, scens, sheet)
    IN IF Truthy(payload) THEN Update(row, payload[2])
       ELSE Update(row, [k \in {METRIC_KEYS[5]} |-> Null])

\* lines 105-108
MergeRow(row, scens, sheet) ==
    LET payload == MergePayload(row, scens, sheet)
    IN IF Truthy(payload) THEN Update(row, payload[2]) ELSE row

\* lines 98, 109, 119: the merged count the stage prints
MergedCount == Cardinality(calls["merge"].made)

-----------------------------------------------------------------------------
(* make_offline_report: Report Aggregator.  Numbers are fixed-point, so 1.0 is
   Num(Scale). *)

\* isinstance(x, (int, float)): a bool is an int
PyIsNumber(x) == IsNum(x) \/ IsBool(x)

\* float(x) of such a value
AsFloat(x) == IF IsBool(x) THEN (IF x[2] THEN Scale ELSE 0) ELSE x[2]

\* sorted(items, key=...) on <<key, item>> pairs: a stable sort, equal keys stay in
\* input order
RECURSIVE InsertByKey(_, _)
InsertByKey(sorted, p) ==
    IF sorted = <<>> THEN <<p>>
    ELSE IF Head(sorted)[1] <= p[1] THEN <<Head(sorted)>> \o InsertByKey(Tail(sorted), p)
    ELSE <<p>> \o sorted

RECURSIVE SortByKey(_)
SortByKey(pairs) ==
    IF pairs = <<>> THEN <<>>
    ELSE InsertByKey(SortByKey(SubSeq(pairs, 1, Len(pairs) - 1)), pairs[Len(pairs)])

Sorted(values) ==
    LET v == SortByKey([i \in 1..Len(values) |-> <<values[i], values[i]>>])
    IN [k \in 1..Len(values) |-> v[k][2]]

\* statistics.mean of a non-empty list
Mean(values) == SumSeq(values) \div Len(values)

RECURSIVE MaxSeq(_)
MaxSeq(values) == IF Len(values) = 1 THEN values[1] ELSE Max2(Head(values), MaxSeq(Tail(values)))

\* math.floor(0.95 * n)
Ceil95_Floor(n) == (95 * n) \div 100

\* math.ceil(0.95 * n)
Ceil95(n) == (95 * n + 99) \div 100

_p95(values) ==
    IF values = <<>> THEN Null
    ELSE LET v == Sorted(values)
             idx == Max2(0, Min2(Ceil95(Len(v)) - 1, Len(v) - 1))
         IN Num(v[idx + 1])

_is_bool_NullCounts(x) == x \in {Bool(TRUE), Bool(FALSE), Num(Scale), Num(0), Null}

\* x in (True, False): membership compares with ==, and 1 == True, 0 == False
_is_bool(x) == x \in {Bool(TRUE), Bool(FALSE), Num(Scale), Num(0)}

_rate(trues, denom) == IF denom <= 0 THEN Null ELSE Num((trues * Scale) \div denom)

\* [r.get(field) for r in rows if isinstance(r.get(field), (int, float))], as floats
RECURSIVE NumbersOf(_, _)
NumbersOf(rows, field) ==
    IF rows = <<>> THEN <<>>
    ELSE LET x == Get(Head(rows), field, Null)
         IN (IF PyIsNumber(x) THEN <<AsFloat(x)>> ELSE <<>>) \o NumbersOf(Tail(rows), field)

\* the rows with r.get(field) is True, and those where it passes _is_bool
TrueAt(rows, field) == {i \in 1..Len(rows) : Get(rows[i], field, Null) = Bool(TRUE)}
BoolAt(rows, field) == {i \in 1..Len(rows) : _is_bool(Get(rows[i], field, Null))}

\* avg / p95 / max of a list, each None when the list is empty
AvgOf(values) == IF values = <<>> THEN Null ELSE Num(Mean(values))
MaxOf(values) == IF values = <<>> THEN Null ELSE Num(MaxSeq(values))

kpi_embeddings(rows) ==
    LET sims == NumbersOf(rows, "similarity")
    IN Map([avg |-> AvgOf(sims),
            p95 |-> _p95(sims),
            max |-> MaxOf(sims),
            pass_rate |-> _rate(Cardinality(TrueAt(rows, "passed")), Cardinality(BoolAt(rows, "passed"))),
            scored |-> Len(sims)])

\* _get_gen_latency / _get_emb_latency: the flat field when it is a number, else
\* timing_ms[key] when that is a number, else None; r.get("timing_ms", {}).get
\* raises AttributeError when timing_ms is present and not a dict
_get_latency(r, flat, key) ==
    IF PyIsNumber(Get(r, flat, Null)) THEN r[flat]
    ELSE LET t == Get(r, "timing_ms", Map(EmptyDict))
         IN IF ~IsMap(t) THEN Raise
            ELSE IF PyIsNumber(Get(t[2], key, Null)) THEN t[2][key]
            ELSE Null

_get_gen_latency(r) == _get_latency(r, "gen_latency_ms", "generation")
_get_emb_latency(r) == _get_latency(r, "emb_latency_ms", "embedding")

RECURSIVE LatenciesOf(_, _, _)
LatenciesOf(rows, flat, key) ==
    IF rows = <<>> THEN <<>>
    ELSE LET x == _get_latency(Head(rows), flat, key)
         IN (IF IsNull(x) THEN <<>> ELSE <<AsFloat(x)>>) \o LatenciesOf(Tail(rows), flat, key)

kpi_latency(rows) ==
    IF \E i \in 1..Len(rows) : IsRaise(_get_gen_latency(rows[i])) \/ IsRaise(_get_emb_latency(rows[i]))
    THEN Raise
    ELSE LET gen_f == LatenciesOf(rows, "gen_latency_ms", "generation")
             emb_f == LatenciesOf(rows, "emb_latency_ms", "embedding")
         IN Map([avg_gen |-> AvgOf(gen_f), p95_gen |-> _p95(gen_f), max_gen |-> MaxOf(gen_f),
                 avg_emb |-> AvgOf(emb_f), p95_emb |-> _p95(emb_f), max_emb |-> MaxOf(emb_f)])

\* sub in s
Contains(s, sub) == \E i \in 0..(Len(s) - Len(sub)) : SubSeq(s, i + 1, i + Len(sub)) = sub

ClarifyingPhrases ==
    {<<"c", "o", "u", "l", "d", " ", "y", "o", "u">>,
     <<"c", "a", "n", " ", "y", "o", "u">>,
     <<"w", "h", "i", "c", "h">>,
     <<"w", "h", "a", "t">>,
     <<"p", "l", "e", "a", "s", "e", " ", "c", "l", "a", "r", "i", "f", "y">>,
     <<"d", "o", " ", "y", "o", "u", " ", "m", "e", "a", "n">>,
     <<"t", "o", " ", "c", "o", "n", "f", "i", "r", "m">>}

\* "U+2019" stands for the one character RIGHT SINGLE QUOTATION MARK
DeflectionPatterns ==
    {<<"i", " ", "c", "a", "n", "U+2019", "t", " ", "h", "e", "l", "p">>,
     <<"i", " ", "c", "a", "n", "'", "t", " ", "h", "e", "l", "p">>,
     <<"i", " ", "c", "a", "n", "n", "o", "t", " ", "h", "e", "l", "p">>,
     <<"i", "U+2019", "m", " ", "n", "o", "t", " ", "a", "b", "l", "e">>,
     <<"i", "'", "m", " ", "n", "o", "t", " ", "a", "b", "l", "e">>,
     <<"u", "n", "a", "b", "l", "e", " ", "t", "o">>,
     <<"i", " ", "c", "a", "n", "U+2019", "t", " ", "a", "s", "s", "i", "s", "t">>,
     <<"i", " ", "c", "a", "n", "'", "t", " ", "a", "s", "s", "i", "s", "t">>,
     <<"i", " ", "c", "a", "n", "n", "o", "t", " ", "a", "s", "s", "i", "s", "t">>,
     <<"a", "s", " ", "a", "n", " ", "a", "i">>,
     <<"i", " ", "d", "o", "n", "'", "t", " ", "h", "a", "v", "e", " ", "a", "c", "c", "e", "s", "s">>,
     <<"i", " ", "d", "o", " ", "n", "o", "t", " ", "h", "a", "v", "e", " ", "a", "c", "c", "e", "s", "s">>,
     <<"i", " ", "c", "a", "n", "n", "o", "t", " ", "p", "r", "o", "v", "i", "d", "e">>,
     <<"i", " ", "c", "a", "n", "'", "t", " ", "p", "r", "o", "v", "i", "d", "e">>}

_looks_like_clarifying(answer) ==
    LET a == Lower(Strip(answer))
    IN a # <<>> /\ Contains(a, <<"?">>) /\ \E x \in ClarifyingPhrases : Contains(a, x)

_looks_like_deflection(answer) ==
    LET a == Lower(Strip(answer))
    IN a # <<>> /\ \E p \in DeflectionPatterns : Contains(a, p)

\* ans = r.get("answer") or ""
AnswerOf(r) == PyOr(Get(r, "answer", Null), Str(<<>>))

\* the rates taken over every row, answered or not
kpi_behavior_AllRows(rows) ==
    IF \E i \in 1..Len(rows) : ~IsStr(AnswerOf(rows[i]))
    THEN Raise
    ELSE LET answered == {i \in 1..Len(rows) : Strip(AnswerOf(rows[i])[2]) # <<>>}
             clar == {i \in answered : _looks_like_clarifying(AnswerOf(rows[i])[2])}
             defl == {i \in answered : _looks_like_deflection(AnswerOf(rows[i])[2])}
         IN Map([scored |-> Len(rows),
                 clar_rate |-> _rate(Cardinality(clar), Len(rows)),
                 defl_rate |-> _rate(Cardinality(defl), Len(rows))])

\* ans.strip() raises AttributeError unless ans is a str
kpi_behavior(rows) ==
    IF \E i \in 1..Len(rows) : ~IsStr(AnswerOf(rows[i]))
    THEN Raise
    ELSE LET answered == {i \in 1..Len(rows) : Strip(AnswerOf(rows[i])[2]) # <<>>}
             clar == {i \in answered : _looks_like_clarifying(AnswerOf(rows[i])[2])}
             defl == {i \in answered : _looks_like_deflection(AnswerOf(rows[i])[2])}
         IN Map([scored |-> Cardinality(answered),
                 clar_rate |-> _rate(Cardinality(clar), Cardinality(answered)),
                 defl_rate |-> _rate(Cardinality(defl), Cardinality(answered))])

kpi_deepeval_ScoresOnly(rows) ==
    LET scores == NumbersOf(rows, "deepeval_score")
    IN IF scores = <<>>
       THEN Map([available |-> FALSE])
       ELSE Map([available |-> TRUE,
             avg |-> AvgOf(scores),
             p95 |-> _p95(scores),
             max |-> MaxOf(scores),
             pass_rate |-> _rate(Cardinality(TrueAt(rows, "deepeval_passed")),
                                 Cardinality(BoolAt(rows, "deepeval_passed"))),
             scored |-> Len(scores)])

kpi_deepeval(rows) ==
    LET scores == NumbersOf(rows, "deepeval_score")
        denom == BoolAt(rows, "deepeval_passed")
        passed == denom \cap TrueAt(rows, "deepeval_passed")
    IN IF scores = <<>> /\ denom = {}
       THEN Map([available |-> FALSE])
       ELSE Map([available |-> TRUE,
             avg |-> AvgOf(scores),
             p95 |-> _p95(scores),
             max |-> MaxOf(scores),
             pass_rate |-> _rate(Cardinality(passed), Cardinality(denom)),
             scored |-> Len(scores)])

kpi_grounding(rows) ==
    LET denom_h == BoolAt(rows, "hallucination_success")
        denom_t == BoolAt(rows, "traceability_geval_success")
        h_pass == denom_h \cap TrueAt(rows, "hallucination_success")
        t_pass == denom_t \cap TrueAt(rows, "traceability_geval_success")
    IN IF denom_h = {} /\ denom_t = {}
       THEN Map([available |-> FALSE])
       ELSE Map([available |-> TRUE,
             hallucination_rate |-> _rate(Cardinality(h_pass), Cardinality(denom_h)),
             traceability_rate |-> _rate(Cardinality(t_pass), Cardinality(denom_t)),
             hallucination_scored |-> Cardinality(denom_h),
             traceability_scored |-> Cardinality(denom_t)])

\* a row without a numeric similarity sorts first
WorstKey_MissingFirst(r) ==
    LET s == Get(r, "similarity", Null)
    IN IF PyIsNumber(s) THEN AsFloat(s) ELSE 0

\* the sort key of worst_rows: the similarity, 1.0 when it is not a number
WorstKey(r) ==
    LET s == Get(r, "similarity", Null)
    IN IF PyIsNumber(s) THEN AsFloat(s) ELSE Scale

\* sorted(rows, key=key)[:n]
worst_rows(rows, n) ==
    LET v == SortByKey([i \in 1..Len(rows) |-> <<WorstKey(rows[i]), rows[i]>>])
    IN [k \in 1..Min2(n, Len(rows)) |-> v[k][2]]

\* worst_rows(rows, 10)
WorstN == 10

\* the cards of the document, in the order they are laid out
Cards(dev, grd) ==
    <<"embedding", "behavior", "latency">>
    \o (IF dev[2].available THEN <<"deepeval">> ELSE <<>>)
    \o (IF grd[2].available THEN <<"grounding">> ELSE <<>>)
    \o <<"worst", "definitions">>

\* the KPI groups (each a dict), the worst rows and the cards of the report; Raise
\* when a KPI computation raises, before anything is written
generate_offline_dashboard(rows) ==
    LET emb == kpi_embeddings(rows)
        lat == kpi_latency(rows)
        beh == kpi_behavior(rows)
        dev == kpi_deepeval(rows)
        grd == kpi_grounding(rows)
    IN IF IsRaise(lat) \/ IsRaise(beh) THEN Raise
       ELSE <<"report", [emb |-> emb, lat |-> lat, beh |-> beh, dev |-> dev, grd |-> grd,
                         worst |-> worst_rows(rows, WorstN),
                         cards |-> Cards(dev, grd)]>>

-----------------------------------------------------------------------------
(* Inputs of a Run *)

\* a row of the input sheet: a prompt and an expected response (blank or not), with
\* or without the "No." column
RowsWithoutNo ==
    {(PROMPT_COL :> prompt) @@ (REFERENCE_COL :> ref) :
        prompt \in {Str(<<"2", "+", "2", "?">>)},
        ref \in {Str(<<" ">>), Str(<<"4">>)}}

RowsWithNo == {(ID_COL :> Num(1)) @@ r : r \in RowsWithoutNo}

Tables == UNION {[1..n -> RowsWithoutNo] \cup [1..n -> RowsWithNo] : n \in 0..MaxRows}

\* --threshold default (0.80) or lower; --deepeval-threshold unset or given
DefaultThreshold == 80
ArgsSet ==
    {[threshold |-> Num(DefaultThreshold), deepeval_threshold |-> Null],
     [threshold |-> Num(70), deepeval_threshold |-> Num(50)]}

Providers ==
    {[name |-> "openai", configured |-> TRUE],
     [name |-> "openai", configured |-> FALSE],
     [name |-> "dataiku", configured |-> FALSE],
     [name |-> "llama", configured |-> TRUE]}

ResponderOutcomes == {Raise, Answered(Str(<<>>), Num(12)), Answered(Str(<<"4">>), Num(12))}

\* call_openai builds OpenAI() for every row, which raises without OPENAI_API_KEY
ResponderOutcomesOf(prov) == IF prov.configured THEN ResponderOutcomes ELSE {Raise}

EmbedVectors == {<<1, 0>>, <<1, 1>>}
EmbedOutcomes == {Raise} \cup {Embedded(e1, e2) : e1 \in EmbedVectors, e2 \in EmbedVectors}

\* metric.score: None, 0.5, or 8.0 from a judge that scores 0-10
JudgeOutcomes == {Raise, Measured(Null), Measured(Num(50)), Measured(Num(8 * Scale))}

ReplyUnparsed == EmptyDict
ReplyFull ==
    [hallucination_success |-> Bool(TRUE),
     hallucination_reason |-> Str(<<"o", "k">>),
     traceability_geval_success |-> Str(<<"N", "o">>),
     traceability_geval_reason |-> Str(<<" ", "w", "e", "a", "k", " ">>)]
ReplyBadReason == [hallucination_reason |-> Num(5)]
GroundOutcomes ==
    {Raise, Replied(ReplyUnparsed, Num(30)), Replied(ReplyFull, Num(30)),
     Replied(ReplyBadReason, Num(30))}

NoCalls == [made |-> {}, raised |-> {}]

PipelineStart ==
    /\ scenariosJson = NoFile
    /\ scenariosJsonl = NoFile
    /\ answersJsonl = NoFile
    /\ answersJson = NoFile
    /\ resultsJsonl = NoFile
    /\ resultsJson = NoFile
    /\ reportHtml = NoFile
    /\ emailSent = FALSE
    /\ metricsXlsx = NoSheet
    /\ outcome = [s \in Stages |-> "notrun"]
    /\ calls = [s \in Stages |-> NoCalls]
    /\ wrote = [s \in Stages |-> {}]

inputVars == <<table, args, provider>>

\* the keys a stage assigned on the rows it wrote
Assigned(fields) == UNION {DOMAIN fields[i] : i \in 1..Len(fields)}

Mark(stage, result) == outcome' = [outcome EXCEPT ![stage] = result]

-----------------------------------------------------------------------------
(* The stages, each one whole run of its `run` function *)

\* method_1_xlsx_to_json.run
RunStep1 ==
    /\ scenariosJson' = File(BuildScenarios(table))
    /\ Mark("step1", "ok")
    /\ UNCHANGED <<inputVars, metricsXlsx, scenariosJsonl, answersJsonl, answersJson, resultsJsonl,
                   resultsJson, reportHtml, emailSent, calls, wrote>>

\* method_2_json_to_jsonl.run
RunStep2 ==
    /\ scenariosJson.exists
    /\ scenariosJsonl' = File([i \in 1..Len(scenariosJson.rows) |->
                                  FlattenScenario(scenariosJson.rows[i])])
    /\ Mark("step2", "ok")
    /\ UNCHANGED <<inputVars, metricsXlsx, scenariosJson, answersJsonl, answersJson, resultsJsonl,
                   resultsJson, reportHtml, emailSent, calls, wrote>>

\* method_3_run_model.run
RunStep3 ==
    /\ scenariosJson.exists
    /\ IF ~ProviderSupported(provider) \/ ~ProviderConfigured(provider)
       THEN /\ Mark("step3", "fatal")
            /\ UNCHANGED <<answersJsonl, answersJson, calls>>
       ELSE \E out \in [1..Len(scenariosJson.rows) -> ResponderOutcomesOf(provider)] :
              LET n == Len(scenariosJson.rows)
                  k == FirstIn({i \in 1..n : IsRaise(out[i])})
                  rows == AnswerRows(scenariosJson.rows, out, DoneCount(n, k))
              IN /\ answersJsonl' = File(rows)
                 /\ answersJson' = IF k = 0 THEN answersJsonl' ELSE answersJson
                 /\ calls' = [calls EXCEPT !["step3"] =
                                [made |-> 1..(IF k = 0 THEN n ELSE k),
                                 raised |-> IF k = 0 THEN {} ELSE {k}]]
                 /\ Mark("step3", IF k = 0 THEN "ok" ELSE "rowerror")
    /\ UNCHANGED <<inputVars, metricsXlsx, scenariosJson, scenariosJsonl, resultsJsonl, resultsJson,
                   reportHtml, emailSent, wrote>>

\* method_4_score_embeddings.run
RunStep4 ==
    /\ scenariosJson.exists
    /\ answersJsonl.exists
    /\ \E out \in [EmbedCalled(answersJsonl.rows, scenariosJson.rows) -> EmbedOutcomes] :
          LET answers == answersJsonl.rows
              scens == scenariosJson.rows
              n == Len(answers)
              called == DOMAIN out
              k == FirstIn({i \in 1..n :
                              \/ ~HasScenario(scens, answers[i]["id"])
                              \/ i \in called /\ IsRaise(out[i])})
              m == DoneCount(n, k)
              rows == ResultRows(answers, scens, out, args.threshold, m)
          IN /\ resultsJsonl' = File(rows)
             /\ resultsJson' = IF k = 0 THEN resultsJsonl' ELSE resultsJson
             /\ calls' = [calls EXCEPT !["step4"] =
                            [made |-> {i \in called : i <= (IF k = 0 THEN n ELSE k)},
                             raised |-> IF k = 0 THEN {} ELSE {k}]]
             /\ wrote' = [wrote EXCEPT !["step4"] =
                            Assigned([i \in 1..m |->
                                SimFields(answers[i], scens, OutcomeAt(out, i), args.threshold)])]
             /\ Mark("step4", IF k = 0 THEN "ok" ELSE "rowerror")
    /\ UNCHANGED <<inputVars, metricsXlsx, scenariosJson, scenariosJsonl, answersJsonl, answersJson,
                   reportHtml, emailSent>>

\* orchestrator line 99: --deepeval-threshold defaults to --threshold
DeepevalThreshold ==
    IF IsNull(args.deepeval_threshold) THEN args.threshold ELSE args.deepeval_threshold

\* method_6_score.run
RunStep6 ==
    /\ scenariosJson.exists
    /\ resultsJson.exists
    /\ \E imported \in BOOLEAN :
          IF ~imported
          THEN /\ Mark("step6", "fatal")
               /\ UNCHANGED <<resultsJson, resultsJsonl, calls, wrote>>
          ELSE \E out \in [{i \in 1..Len(resultsJson.rows) :
                                Truthy(JudgeReference(resultsJson.rows[i], scenariosJson.rows))}
                             -> JudgeOutcomes] :
                 LET rows == resultsJson.rows
                     scens == scenariosJson.rows
                     judged == DOMAIN out
                     updated == [i \in 1..Len(rows) |->
                                    JudgeRow(rows[i], scens, OutcomeAt(out, i), DeepevalThreshold)]
                 IN /\ resultsJson' = File(updated)
                    /\ resultsJsonl' = resultsJson'
                    /\ calls' = [calls EXCEPT !["step6"] =
                                   [made |-> judged,
                                    raised |-> {i \in judged : IsRaise(out[i])}]]
                    /\ wrote' = [wrote EXCEPT !["step6"] =
                                   Assigned([i \in 1..Len(rows) |->
                                       JudgeFields(rows[i], scens, OutcomeAt(out, i), DeepevalThreshold)])]
                    /\ Mark("step6", "ok")
    /\ UNCHANGED <<inputVars, metricsXlsx, scenariosJson, scenariosJsonl, answersJsonl, answersJson,
                   reportHtml, emailSent>>

\* method_7_hallucination_tracebility.run
RunStep7 ==
    /\ resultsJson.exists
    /\ \E out \in [{i \in 1..Len(resultsJson.rows) : GroundingEvaluated(resultsJson.rows[i])}
                    -> GroundOutcomes] :
          LET rows == resultsJson.rows
              n == Len(rows)
              evaluated == DOMAIN out
              k == FirstIn({i \in evaluated : GroundingRaises(out[i])})
          IN IF k = 0
             THEN /\ resultsJson' = File(GroundingRows(rows, out))
                  /\ resultsJsonl' = resultsJson'
                  /\ calls' = [calls EXCEPT !["step7"] = [made |-> evaluated, raised |-> {}]]
                  /\ wrote' = [wrote EXCEPT !["step7"] =
                                 UNION {DOMAIN Judgment(out[i]) : i \in evaluated}]
                  /\ Mark("step7", "ok")
             ELSE /\ UNCHANGED <<resultsJson, resultsJsonl, wrote>>
                  /\ calls' = [calls EXCEPT !["step7"] =
                                 [made |-> {i \in evaluated : i <= k}, raised |-> {k}]]
                  /\ Mark("step7", "rowerror")
    /\ UNCHANGED <<inputVars, metricsXlsx, scenariosJson, scenariosJsonl, answersJsonl, answersJson,
                   reportHtml, emailSent>>

\* method_4_rag_quality_from_xlsx.run
RunMerge ==
    /\ scenariosJson.exists
    /\ resultsJson.exists
    /\ \E sheet \in MetricsSheets :
          IF PROMPT_COL_XLSX \notin sheet.columns
          THEN /\ Mark("merge", "fatal")
               /\ metricsXlsx' = sheet
               /\ UNCHANGED <<resultsJson, resultsJsonl, calls, wrote>>
          ELSE LET rows == resultsJson.rows
                   scens == scenariosJson.rows
                   hit == {i \in 1..Len(rows) : Truthy(MergePayload(rows[i], scens, sheet))}
                   merged == [i \in 1..Len(rows) |-> MergeRow(rows[i], scens, sheet)]
               IN /\ metricsXlsx' = sheet
                  /\ resultsJson' = File(merged)
                  /\ resultsJsonl' = resultsJson'
                  /\ calls' = [calls EXCEPT !["merge"] = [made |-> hit, raised |-> {}]]
                  /\ wrote' = [wrote EXCEPT !["merge"] =
                                 UNION {DOMAIN MergePayload(rows[i], scens, sheet)[2] : i \in hit}]
                  /\ Mark("merge", "ok")
    /\ UNCHANGED <<inputVars, scenariosJson, scenariosJsonl, answersJsonl, answersJson,
                   reportHtml, emailSent>>

\* method_5_offline_report.run: the report is rendered from the rows of results.json
RunStep5 ==
    /\ resultsJson.exists
    /\ reportHtml' = File(resultsJson.rows)
    /\ Mark("step5", "ok")
    /\ UNCHANGED <<inputVars, metricsXlsx, scenariosJson, scenariosJsonl, answersJsonl, answersJson,
                   resultsJsonl, resultsJson, emailSent, calls, wrote>>

\* sendEmail.send_report_email: the SMTP settings or the server may fail it
RunEmail ==
    /\ \E delivered \in BOOLEAN :
          /\ emailSent' = delivered
          /\ Mark("email", IF delivered THEN "ok" ELSE "fatal")
    /\ UNCHANGED <<inputVars, metricsXlsx, scenariosJson, scenariosJsonl, answersJsonl, answersJson,
                   resultsJsonl, resultsJson, reportHtml, calls, wrote>>

-----------------------------------------------------------------------------
(* orchestrator.main: one Run, the stages called one after the other; an
   exception a stage raises ends main *)

NextStage_ReportBeforeGrounding(stage) ==
    CASE stage = "step1" -> "step2"
      [] stage = "step2" -> "step3"
      [] stage = "step3" -> "step4"
      [] stage = "step4" -> "step6"
      [] stage = "step6" -> "step5"
      [] stage = "step5" -> "step7"
      [] stage = "step7" -> "email"
      [] stage = "email" -> "done"

\* lines 61-141: the order of the calls in main
NextStage(stage) ==
    CASE stage = "step1" -> "step2"
      [] stage = "step2" -> "step3"
      [] stage = "step3" -> "step4"
      [] stage = "step4" -> "step6"
      [] stage = "step6" -> "step7"
      [] stage = "step7" -> "step5"
      [] stage = "step5" -> "email"
      [] stage = "email" -> "done"

\* main goes on to the next call when the stage returned, and ends when it raised
Return(stage) ==
    /\ pc' = IF outcome'[stage] = "ok" THEN NextStage(stage) ELSE "failed"
    /\ UNCHANGED fn

OrchStep1 == pc = "step1" /\ RunStep1 /\ Return("step1")
OrchStep2 == pc = "step2" /\ RunStep2 /\ Return("step2")
OrchStep3 == pc = "step3" /\ RunStep3 /\ Return("step3")
OrchStep4 == pc = "step4" /\ RunStep4 /\ Return("step4")
OrchStep6 == pc = "step6" /\ RunStep6 /\ Return("step6")
OrchStep7 == pc = "step7" /\ RunStep7 /\ Return("step7")
OrchStep5 == pc = "step5" /\ RunStep5 /\ Return("step5")
OrchEmail == pc = "email" /\ RunEmail /\ Return("email")

Init ==
    /\ table \in Tables
    /\ args \in ArgsSet
    /\ provider \in Providers
    /\ pc = "step1"
    /\ PipelineStart
    /\ fn = [name |-> "none", in |-> <<>>, out |-> Null]

Next ==
    \/ OrchStep1
    \/ OrchStep2
    \/ OrchStep3
    \/ OrchStep4
    \/ OrchStep6
    \/ OrchStep7
    \/ OrchStep5
    \/ OrchEmail

Spec == Init /\ [][Next]_vars

-----------------------------------------------------------------------------
(* The stages run on their own (each `run` can be called by itself), every stage at
   most once: the enrichment stages in any order once results.json is there *)

Standalone(stage) ==
    /\ pc = "idle"
    /\ outcome[stage] = "notrun"
    /\ UNCHANGED <<pc, fn>>

AloneStep1 == Standalone("step1") /\ RunStep1
AloneStep3 == Standalone("step3") /\ RunStep3
AloneStep4 == Standalone("step4") /\ RunStep4
AloneStep6 == Standalone("step6") /\ RunStep6
AloneStep7 == Standalone("step7") /\ RunStep7
AloneMerge == Standalone("merge") /\ RunMerge

InitStages ==
    /\ table \in Tables
    /\ args = [threshold |-> Num(DefaultThreshold), deepeval_threshold |-> Null]
    /\ provider = [name |-> "openai", configured |-> TRUE]
    /\ pc = "idle"
    /\ PipelineStart
    /\ fn = [name |-> "none", in |-> <<>>, out |-> Null]

NextStages ==
    \/ AloneStep1
    \/ AloneStep3
    \/ AloneStep4
    \/ AloneStep6
    \/ AloneStep7
    \/ AloneMerge

SpecStages == InitStages /\ [][NextStages]_vars

-----------------------------------------------------------------------------
(* The External Metrics Merge over Results whose prompts differ: the Scenario
   Builder, the Answer Generator and the Similarity Scorer produce results.json
   from sheets whose prompts are "2+2?", "Hi" or blank; then the merge runs. *)

MergeInputRows ==
    {(PROMPT_COL :> prompt) @@ (REFERENCE_COL :> Str(<<"4">>)) :
        prompt \in {Str(<<"2", "+", "2", "?">>), Str(<<"H", "i">>), Str(<<" ">>)}}

MergeTables == UNION {[1..n -> MergeInputRows] : n \in 0..MaxRows}

InitMerge ==
    /\ table \in MergeTables
    /\ args = [threshold |-> Num(DefaultThreshold), deepeval_threshold |-> Null]
    /\ provider = [name |-> "openai", configured |-> TRUE]
    /\ pc = "idle"
    /\ PipelineStart
    /\ fn = [name |-> "none", in |-> <<>>, out |-> Null]

NextMerge ==
    \/ AloneStep1
    \/ AloneStep3
    \/ AloneStep4
    \/ AloneMerge

SpecMerge == InitMerge /\ [][NextMerge]_vars

-----------------------------------------------------------------------------
(* The Scenario Builder over sheets of every shape: with or without the prompt,
   the reference and the "No." column, with blank and empty (NaN) cells, and
   with "No." values that repeat. *)

BuilderColumnSets ==
    {{PROMPT_COL, REFERENCE_COL}, {PROMPT_COL}, {REFERENCE_COL}, {ID_COL, PROMPT_COL, REFERENCE_COL}}

\* the cells a column may hold
BuilderCells(col) ==
    CASE col = PROMPT_COL -> {Str(<<"2", "+", "2", "?">>), Str(<<" ">>), NaN}
      [] col = REFERENCE_COL -> {Str(<<"4">>), NaN}
      [] col = ID_COL -> {Num(1), Num(2)}

BuilderRows(cols) == {r \in [cols -> UNION {BuilderCells(c) : c \in cols}] : \A c \in cols : r[c] \in BuilderCells(c)}

BuilderTables == UNION {UNION {[1..n -> BuilderRows(cols)] : n \in 0..MaxRows} : cols \in BuilderColumnSets}

\* from_expected_and_answer.py: the header resolution of the standalone builder
norm(s) ==
    IF IsNull(s) THEN <<>>
    ELSE Lower(Strip(CollapseSpaces(Replace(Replace(PyStr(s), <<"\n">>, <<" ">>), <<"\r">>, <<" ">>))))

\* {norm(c): c for c in df.columns}: the keys in first-insertion order, each with
\* the last header that normalizes to it
RECURSIVE ColMapPut(_, _, _)
ColMapPut(m, k, c) ==
    IF m = <<>> THEN << <<k, c>> >>
    ELSE IF Head(m)[1] = k THEN << <<k, c>> >> \o Tail(m)
    ELSE <<Head(m)>> \o ColMapPut(Tail(m), k, c)

RECURSIVE ColMap(_)
ColMap(cols) ==
    IF cols = <<>> THEN <<>>
    ELSE ColMapPut(ColMap(SubSeq(cols, 1, Len(cols) - 1)), norm(Str(cols[Len(cols)])), cols[Len(cols)])

\* the first index of seq that satisfies Test, or 0
FirstIndex(seq, Test(_)) ==
    IF \E i \in 1..Len(seq) : Test(seq[i])
    THEN CHOOSE i \in 1..Len(seq) : Test(seq[i]) /\ \A j \in 1..(i - 1) : ~Test(seq[j])
    ELSE 0

\* the second pass only
pick_by_substring(col_map, synonyms) ==
    LET Hit(syn) == \E e \in 1..Len(col_map) : Contains(col_map[e][1], norm(Str(syn)))
        s == FirstIndex(synonyms, Hit)
    IN IF s = 0 THEN Null
       ELSE LET In(entry) == Contains(entry[1], norm(Str(synonyms[s])))
            IN Str(col_map[FirstIndex(col_map, In)][2])

pick_by_synonyms(col_map, synonyms) ==
    LET Exact(syn) == \E e \in 1..Len(col_map) : col_map[e][1] = norm(Str(syn))
        x == FirstIndex(synonyms, Exact)
    IN IF x # 0
       THEN LET Is(entry) == entry[1] = norm(Str(synonyms[x]))
            IN Str(col_map[FirstIndex(col_map, Is)][2])
       ELSE pick_by_substring(col_map, synonyms)

PromptSynonyms ==
    <<<<"p", "r", "o", "m", "p", "t">>,
      <<"q", "u", "e", "s", "t", "i", "o", "n">>,
      <<"q", "u", "e", "r", "y">>,
      <<"u", "s", "e", "r", " ", "q", "u", "e", "s", "t", "i", "o", "n">>,
      <<"i", "n", "p", "u", "t">>>>

ExpectedSynonyms ==
    <<<<"e", "x", "p", "e", "c", "t", "e", "d", " ", "r", "e", "s", "p", "o", "n", "s", "e">>,
      <<"e", "x", "p", "e", "c", "t", "e", "d">>,
      <<"r", "e", "f", "e", "r", "e", "n", "c", "e">>,
      <<"g", "o", "l", "d">>,
      <<"g", "r", "o", "u", "n", "d", " ", "t", "r", "u", "t", "h">>>>

AnswerSynonyms ==
    <<<<"m", "c", "p">>,
      <<"a", "i", " ", "r", "e", "s", "p", "o", "n", "s", "e">>,
      <<"m", "o", "d", "e", "l", " ", "r", "e", "s", "p", "o", "n", "s", "e">>,
      <<"r", "e", "s", "p", "o", "n", "s", "e">>,
      <<"a", "n", "s", "w", "e", "r">>,
      <<"o", "u", "t", "p", "u", "t">>>>

\* the resolution of the three columns, and the RuntimeError when one is missing
ResolveColumns(cols) ==
    LET col_map == ColMap(cols)
        prompt_col == pick_by_synonyms(col_map, PromptSynonyms)
        expected_col == pick_by_synonyms(col_map, ExpectedSynonyms)
        answer_col == pick_by_synonyms(col_map, AnswerSynonyms)
    IN IF IsNull(prompt_col) \/ IsNull(expected_col) \/ IsNull(answer_col) THEN Raise
       ELSE <<"columns", [prompt_col |-> prompt_col, expected_col |-> expected_col, answer_col |-> answer_col]>>

\* headers a sheet may carry
Headers ==
    {<<"P", "r", "o", "m", "p", "t">>,
     <<"E", "x", "p", "e", "c", "t", "e", "d", " ", "R", "e", "s", "p", "o", "n", "s", "e">>,
     <<"Q", "u", "e", "r", "y">>,
     <<"Q", "u", "e", "s", "t", "i", "o", "n", " ", "N", "o", "t", "e", "s">>,
     <<" ", "G", "O", "L", "D", "\n">>,
     <<"O", "u", "t", "p", "u", "t">>}

MaxHeaders == 2

\* the header row is resolved before any row is read
ApplyResolve ==
    /\ fn.name = "none"
    /\ \A st \in Stages : outcome[st] = "notrun"
    /\ \E n \in 0..MaxHeaders : \E cols \in [1..n -> Headers] :
          fn' = [name |-> "ResolveColumns", in |-> cols, out |-> ResolveColumns(cols)]
    /\ UNCHANGED pipelineVars

InitBuilder ==
    /\ table \in BuilderTables
    /\ args = [threshold |-> Num(DefaultThreshold), deepeval_threshold |-> Null]
    /\ provider = [name |-> "openai", configured |-> TRUE]
    /\ pc = "idle"
    /\ PipelineStart
    /\ fn = [name |-> "none", in |-> <<>>, out |-> Null]

NextBuilder ==
    \/ AloneStep1
    \/ AloneStep3
    \/ ApplyResolve

SpecBuilder == InitBuilder /\ [][NextBuilder]_vars

-----------------------------------------------------------------------------
(* Harness for the pure helpers: Init leaves the pipeline idle, each action
   applies one helper to an input drawn from a bounded set. *)

PipelineIdle ==
    /\ table = <<>>
    /\ args = [threshold |-> Num(DefaultThreshold), deepeval_threshold |-> Null]
    /\ provider = [name |-> "openai", configured |-> TRUE]
    /\ pc = "idle"
    /\ PipelineStart

FnIdle == [name |-> "none", in |-> <<>>, out |-> Null]

VecComponents == {-1, 0, 1, 2}
Vectors == UNION {[1..n -> VecComponents] : n \in 0..MaxVecLen}

InitCosine == PipelineIdle /\ fn = FnIdle

ApplyCosine ==
    /\ fn.name = "none"
    /\ \E a \in Vectors, b \in Vectors :
          fn' = [name |-> "cosine", in |-> <<a, b>>, out |-> Num(cosine(a, b))]
    /\ UNCHANGED pipelineVars

SpecCosine == InitCosine /\ [][ApplyCosine]_vars

RawScores == {Null} \cup {Num(x) : x \in (0 - Scale)..(MaxRawScore * Scale)}

InitNormalize == PipelineIdle /\ fn = FnIdle

ApplyNormalize ==
    /\ fn.name = "none"
    /\ \E x \in RawScores :
          fn' = [name |-> "_normalize_score", in |-> x, out |-> _normalize_score(x)]
    /\ UNCHANGED pipelineVars

SpecNormalize == InitNormalize /\ [][ApplyNormalize]_vars

-----------------------------------------------------------------------------
(* The Report Aggregator applied to Result collections whose enrichment fields
   are present, null or absent row by row. *)

ReportBase ==
    [id |-> Str(<<"Q">>), prompt |-> Str(<<"2", "+", "2", "?">>), reference |-> Str(<<"4">>),
     answer |-> Str(<<"4">>), timing_ms |-> Map([generation |-> Num(12)])]

\* what the Similarity Scorer, the Judge Scorer and the Grounding Judge leave in a
\* Result; the last grounding value is a 1 merged from a metrics sheet
SimParts ==
    {[similarity |-> Null, passed |-> Null],
     [similarity |-> Num(50), passed |-> Bool(FALSE)],
     [similarity |-> Num(Scale), passed |-> Bool(TRUE)]}

JudgeParts ==
    {[deepeval_score |-> Null, deepeval_passed |-> Null],
     [deepeval_score |-> Null, deepeval_passed |-> Bool(FALSE)],
     [deepeval_score |-> Num(90), deepeval_passed |-> Bool(TRUE)]}

GroundParts ==
    {[hallucination_success |-> Null, traceability_geval_success |-> Null],
     [hallucination_success |-> Bool(TRUE), traceability_geval_success |-> Bool(FALSE)],
     [hallucination_success |-> Bool(FALSE), traceability_geval_success |-> Null],
     [hallucination_success |-> Num(Scale)]}

\* other answers and latency fields: no answer, a clarifying question, a refusal,
\* a refusal that asks back, a question and a phrase that do not clarify;
\* timing_ms absent, null, or with both latencies; the flat latency fields
OtherParts ==
    {[answer |-> Null],
     [answer |-> Str(<<" ">>)],
     [answer |-> Str(<<"W", "h", "a", "t", "?">>)],
     [answer |-> Str(<<"A", "s", " ", "a", "n", " ", "A", "I">>)],
     [answer |-> Str(<<"A", "s", " ", "a", "n", " ", "A", "I", ",", " ", "w", "h", "a", "t", "?">>)],
     [answer |-> Str(<<"4", "?">>)],
     [answer |-> Str(<<"W", "h", "i", "c", "h">>)],
     [timing_ms |-> Null],
     [timing_ms |-> Map([generation |-> Num(30), embedding |-> Num(5)])],
     [timing_ms |-> Null, gen_latency_ms |-> Num(20), emb_latency_ms |-> Num(4)]}

WithoutTiming == [k \in DOMAIN ReportBase \ {"timing_ms"} |-> ReportBase[k]]

ReportRows ==
    {ReportBase, WithoutTiming}
    \cup {Update(ReportBase, p) : p \in SimParts \cup JudgeParts \cup GroundParts \cup OtherParts}
    \cup {Update(Update(ReportBase, s), Update(j, g)) :
             s \in {[similarity |-> Num(50), passed |-> Bool(FALSE)]},
             j \in {[deepeval_score |-> Num(90), deepeval_passed |-> Bool(TRUE)]},
             g \in {[hallucination_success |-> Bool(TRUE), traceability_geval_success |-> Bool(FALSE)]}}

\* most rows in a Result collection given to the report
MaxReportRows == 2

InitReport == PipelineIdle /\ fn = FnIdle

ApplyReport ==
    /\ fn.name = "none"
    /\ \E n \in 0..MaxReportRows :
          \E rows \in [1..n -> ReportRows] :
             fn' = [name |-> "generate_offline_dashboard", in |-> rows,
                    out |-> generate_offline_dashboard(rows)]
    /\ UNCHANGED pipelineVars

SpecReport == InitReport /\ [][ApplyReport]_vars

\* most rows in a Result collection given to worst_rows
MaxWorstRows == 11

\* similarity of a row: none, 0.5 or 1.0
WorstSimilarities == {Null, Num(50), Num(Scale)}

\* a collection whose rows have the similarities sims, in that order
WorstInput(sims) == [i \in 1..Len(sims) |-> [id |-> Num(i), similarity |-> sims[i]]]

InitWorst == PipelineIdle /\ fn = FnIdle

ApplyWorst ==
    /\ fn.name = "none"
    /\ \E n \in 0..MaxWorstRows :
          \E sims \in [1..n -> WorstSimilarities] :
             fn' = [name |-> "worst_rows", in |-> WorstInput(sims),
                    out |-> worst_rows(WorstInput(sims), WorstN)]
    /\ UNCHANGED pipelineVars

SpecWorst == InitWorst /\ [][ApplyWorst]_vars

-----------------------------------------------------------------------------
(* _extract_dataiku_text applied to the values call_dataiku can return *)

\* the body of an envelope: the encoding of a value, or text that is not JSON
Bodies == {JsonTexts[v] : v \in JsonValues} \cup NotJson

\* null, a plain string, an envelope with a str body, with a body that is not a str
\* or with none, and a number
Responses ==
    {Null, Str(<<"h", "i">>), Num(5), Map(EmptyDict), Map([body |-> Num(5)]), Map([body |-> Null])}
    \cup {Map([body |-> Str(b)]) : b \in Bodies}

InitExtract == PipelineIdle /\ fn = FnIdle

ApplyExtract ==
    /\ fn.name = "none"
    /\ \E resp \in Responses :
          fn' = [name |-> "_extract_dataiku_text", in |-> resp, out |-> _extract_dataiku_text(resp)]
    /\ UNCHANGED pipelineVars

SpecExtract == InitExtract /\ [][ApplyExtract]_vars

-----------------------------------------------------------------------------
(* The Grounding Judge's decoding of a reply, and _as_bool, over replies and
   field values of every shape *)

\* how a judge dresses the JSON of its reply: as it is, padded with whitespace,
\* with prose before, after, or in a fenced block ("BACKTICK" stands for the one
\* character GRAVE ACCENT)
Dress(text, how) ==
    CASE how = "plain" -> text
      [] how = "padded" -> <<" ", "\n">> \o text \o <<"\n">>
      [] how = "before" -> <<"S", "u", "r", "e", ":", " ">> \o text
      [] how = "after" -> text \o <<" ", "D", "o", "n", "e", ".">>
      [] how = "fenced" -> <<"BACKTICK", "BACKTICK", "BACKTICK", "j", "s", "o", "n", "\n">> \o text \o <<"\n", "BACKTICK", "BACKTICK", "BACKTICK">>

Dressings == {"plain", "padded", "before", "after", "fenced"}

\* replies that hold no JSON
ProseReplies == {<<>>, <<" ">>, <<"o", "o", "p", "s">>, <<"}", "{">>, <<"{", "o", "o", "p", "s", "}">>}

AsBoolInputs ==
    {Bool(TRUE), Bool(FALSE), Null, Num(0), Num(1), List(<<>>), Map(EmptyDict)}
    \cup {Str(t) : t \in {<<"t", "r", "u", "e">>,
                          <<"T", "R", "U", "E">>,
                          <<" ", "T", "r", "u", "e", " ">>,
                          <<"y", "e", "s">>,
                          <<"Y">>,
                          <<"1">>,
                          <<" ", "1", "\n">>,
                          <<"f", "a", "l", "s", "e">>,
                          <<"N", "o">>,
                          <<"n">>,
                          <<"0">>,
                          <<"\t", "n", "o", " ">>,
                          <<"m", "a", "y", "b", "e">>,
                          <<>>,
                          <<"2">>,
                          <<"o", "n">>,
                          <<"o", "f", "f">>,
                          <<"t">>,
                          <<"n", "o", "n", "e">>}}

JudgeLatency == Num(30)

InitJudge == PipelineIdle /\ fn = FnIdle

ApplyJudge ==
    /\ fn.name = "none"
    /\ \E text \in {Dress(ReplyEncodings[v], how) : v \in ReplyValues, how \in Dressings} \cup ProseReplies :
          fn' = [name |-> "judge_hallucination_traceability", in |-> text,
                 out |-> judge_hallucination_traceability(text, JudgeLatency)]
    /\ UNCHANGED pipelineVars

ApplyAsBool ==
    /\ fn.name = "none"
    /\ \E x \in AsBoolInputs : fn' = [name |-> "_as_bool", in |-> x, out |-> _as_bool(x)]
    /\ UNCHANGED pipelineVars

NextJudge ==
    \/ ApplyJudge
    \/ ApplyAsBool

SpecJudge == InitJudge /\ [][NextJudge]_vars

-----------------------------------------------------------------------------
(* _p95 over lists long enough for the 95th-percentile rank to fall below the
   maximum (20 values and more) *)

MaxP95Len == 21

\* the numbers 1..n in ascending order, rotated by r places
Rotated(n, r) == [i \in 1..n |-> ((i + r - 1) % n) + 1]

\* the same in descending order
Reversed(values) == [i \in 1..Len(values) |-> values[Len(values) + 1 - i]]

\* k times the value 2, then n - k times the value 1
TwosThenOnes(n, k) == [i \in 1..n |-> IF i <= k THEN 2 ELSE 1]

InitP95 == PipelineIdle /\ fn = FnIdle

ApplyP95 ==
    /\ fn.name = "none"
    /\ \E n \in 0..MaxP95Len : \E r \in 0..n :
          \E values \in {Rotated(n, r), Reversed(Rotated(n, r)), TwosThenOnes(n, r)} :
             fn' = [name |-> "_p95", in |-> values, out |-> _p95(values)]
    /\ UNCHANGED pipelineVars

SpecP95 == InitP95 /\ [][ApplyP95]_vars

-----------------------------------------------------------------------------
(* Claims *)

EnrichmentStages == {"step6", "step7", "merge"}

\* the keys each enrichment stage owns: the Judge Scorer and the Grounding Judge
\* the keys they assign, the Merge the keys of its catalog that belong to no
\* other stage
GroundingKeys ==
    {"hallucination_success", "hallucination_reason",
     "traceability_geval_success", "traceability_geval_reason",
     "judge_latency_ms", "judge_model"}

OwnedKeys(stage) ==
    CASE stage = "step6" -> {"deepeval_score", "deepeval_threshold", "deepeval_passed"}
      [] stage = "step7" -> GroundingKeys
      [] stage = "merge" -> {METRIC_KEYS[i] : i \in 1..Len(METRIC_COLUMNS)} \ GroundingKeys

\* this step is a run of the stage (each stage runs at most once)
Ran(stage) == outcome[stage] = "notrun" /\ outcome'[stage] # "notrun"

IdsOf(rows) == [i \in 1..Len(rows) |-> rows[i]["id"]]

\* C1: an enrichment stage (Judge Scorer, Grounding Judge, External Metrics Merge)
\* leaves every key a Result held before it, other than the keys the stage itself
\* owns, present with the same value, whatever subset of the enrichment stages
\* runs after the Similarity Scorer and in whatever order.
C1_EnrichmentKeepsOtherKeys ==
    [][\A stage \in EnrichmentStages :
          Ran(stage) =>
            /\ resultsJson'.exists
            /\ Len(resultsJson'.rows) = Len(resultsJson.rows)
            /\ \A i \in 1..Len(resultsJson.rows) :
                 \A k \in DOMAIN resultsJson.rows[i] \ OwnedKeys(stage) :
                    /\ k \in DOMAIN resultsJson'.rows[i]
                    /\ resultsJson'.rows[i][k] = resultsJson.rows[i][k]]_vars

\* the Merge ran on a Result the Grounding Judge had evaluated and left its
\* own value under the judge's key
C1_Witness ==
    /\ outcome["merge"] = "ok"
    /\ \E i \in calls["step7"].made \cap calls["merge"].made :
          /\ i \in 1..Len(resultsJson.rows)
          /\ Get(resultsJson.rows[i], "faithfulness_score", Null) = Num(90)
          /\ Get(resultsJson.rows[i], "hallucination_success", Null) = Bool(FALSE)
          /\ Get(resultsJson.rows[i], "judge_model", Null) = JUDGE_MODEL

\* C2: the key sets written by the Similarity Scorer, the Judge Scorer, the
\* Grounding Judge and the External Metrics Merge are pairwise disjoint, so no
\* stage overwrites a key another stage produced.
C2_WrittenKeysDisjoint ==
    \A s1 \in {"step4", "step6", "step7", "merge"} :
       \A s2 \in {"step4", "step6", "step7", "merge"} \ {s1} :
          wrote[s1] \cap wrote[s2] = {}

\* the Merge ran after the Grounding Judge and replaced the judge's verdict
\* (True) by the sheet's cell (False)
C2_Witness ==
    /\ outcome["step7"] = "ok"
    /\ outcome["merge"] = "ok"
    /\ "hallucination_success" \in wrote["step7"] \cap wrote["merge"]
    /\ \E i \in 1..Len(resultsJson.rows) :
          /\ "judge_model" \in DOMAIN resultsJson.rows[i]
          /\ resultsJson.rows[i]["hallucination_reason"] = Str(<<"o", "k">>)
          /\ resultsJson.rows[i]["hallucination_success"] = Bool(FALSE)

\* C3: after the Similarity Scorer has run over the Scenario file and the Answer
\* stream, a Result with id X exists exactly when an Answer with id X exists:
\* the Results are the Answers one for one (an Answer whose reference is empty
\* included), and there is no Result without an Answer.
C3_ResultIffAnswer ==
    outcome["step4"] # "notrun" =>
        /\ resultsJsonl.exists
        /\ IdsOf(resultsJsonl.rows) = IdsOf(answersJsonl.rows)
        /\ resultsJson = resultsJsonl

\* the Scorer stopped at the second Answer: the first has its Result, the
\* second has none
C3_Witness ==
    /\ outcome["step4"] = "rowerror"
    /\ calls["step4"].raised = {2}
    /\ Len(answersJsonl.rows) = 2
    /\ Len(resultsJsonl.rows) = 1
    /\ ~resultsJson.exists

\* C4: an error raised while processing one row (the responder call of the
\* Answer Generator, an embedding call of the Similarity Scorer, the judge call
\* or the decoding of its reply in the Grounding Judge) does not abort the
\* stage: the stage still returns and writes a record for every input row.
C4_RowErrorContained ==
    /\ calls["step3"].raised # {} =>
          /\ outcome["step3"] = "ok"
          /\ answersJson.exists
          /\ Len(answersJson.rows) = Len(scenariosJson.rows)
    /\ calls["step4"].raised # {} =>
          /\ outcome["step4"] = "ok"
          /\ resultsJson.exists
          /\ Len(resultsJson.rows) = Len(answersJsonl.rows)
    /\ calls["step7"].raised # {} =>
          /\ outcome["step7"] = "ok"
          /\ \A i \in calls["step7"].made \ calls["step7"].raised :
                "judge_model" \in DOMAIN resultsJson.rows[i]

\* the responder raised on the second Scenario: the Answer Generator ended
\* there, with one Answer streamed and responses.json never written
C4_Witness ==
    /\ outcome["step3"] = "rowerror"
    /\ calls["step3"].raised = {2}
    /\ Len(scenariosJson.rows) = 2
    /\ Len(answersJsonl.rows) = 1
    /\ ~answersJson.exists

\* C5: in the Judge Scorer, a row whose judge invocation raises gets
\* deepeval_score and deepeval_passed null and keeps all its other fields, the
\* other judged rows are still scored, and the output holds every input row.
C5_JudgeFailureIsLocal ==
    [][(Ran("step6") /\ outcome'["step6"] = "ok") =>
          /\ Len(resultsJson'.rows) = Len(resultsJson.rows)
          /\ resultsJsonl' = resultsJson'
          /\ \A i \in calls'["step6"].raised :
                /\ resultsJson'.rows[i]["deepeval_score"] = Null
                /\ resultsJson'.rows[i]["deepeval_passed"] = Null
                /\ \A k \in DOMAIN resultsJson.rows[i] :
                      /\ k \in DOMAIN resultsJson'.rows[i]
                      /\ resultsJson'.rows[i][k] = resultsJson.rows[i][k]
          /\ \A j \in calls'["step6"].made \ calls'["step6"].raised :
                IsBool(resultsJson'.rows[j]["deepeval_passed"])]_vars

C5_Witness ==
    /\ outcome["step6"] = "ok"
    /\ pc = "step7"
    /\ calls["step6"].raised = {1}
    /\ calls["step6"].made = {1, 2}
    /\ resultsJson.rows[1]["deepeval_passed"] = Null
    /\ resultsJson.rows[2]["deepeval_passed"] = Bool(TRUE)

\* the order the spec gives the stages of a Run
StageOrder == <<"step1", "step2", "step3", "step4", "step6", "step7", "step5", "email">>

\* C6: in an orchestrated Run the stages run in the order Scenario Builder,
\* Scenario Flattener, Answer Generator, Similarity Scorer, Judge Scorer,
\* Grounding Judge, Report Aggregator, email; a stage starts only when
\* every stage before it has returned with its full output written; the report
\* is rendered from the Results both enrichment stages have finished, and the
\* email goes out only after the report exists.
C6_StagesInOrder ==
    /\ \A i \in 1..Len(StageOrder) :
          outcome[StageOrder[i]] # "notrun" =>
             \A j \in 1..(i - 1) : outcome[StageOrder[j]] = "ok"
    /\ outcome["step2"] # "notrun" => scenariosJson.exists
    /\ outcome["step3"] # "notrun" =>
          /\ scenariosJsonl.exists
          /\ Len(scenariosJsonl.rows) = Len(scenariosJson.rows)
    /\ outcome["step4"] # "notrun" =>
          /\ answersJsonl.exists /\ answersJson.exists
          /\ Len(answersJsonl.rows) = Len(scenariosJson.rows)
    /\ outcome["step6"] # "notrun" =>
          /\ resultsJsonl.exists /\ resultsJson.exists
          /\ Len(resultsJson.rows) = Len(answersJsonl.rows)
    /\ outcome["step7"] # "notrun" =>
          \A i \in 1..Len(resultsJson.rows) :
             "deepeval_score" \in DOMAIN resultsJson.rows[i]
    /\ outcome["step5"] # "notrun" =>
          \A i \in 1..Len(resultsJson.rows) :
             GroundingEvaluated(resultsJson.rows[i]) =>
                "judge_model" \in DOMAIN resultsJson.rows[i]
    /\ reportHtml.exists =>
          /\ outcome["step6"] = "ok" /\ outcome["step7"] = "ok"
          /\ reportHtml.rows = resultsJson.rows
    /\ outcome["email"] # "notrun" => reportHtml.exists

C6_Witness ==
    /\ pc = "done"
    /\ emailSent
    /\ reportHtml.exists
    /\ Len(reportHtml.rows) = 2
    /\ \E i \in 1..2 : "judge_model" \in DOMAIN reportHtml.rows[i]

\* C7: an enrichment stage outputs exactly one record per input record, with the
\* same ids in the same order: no Result is deleted, whether or not the stage
\* evaluated or matched the row.
C7_EnrichmentKeepsEveryResult ==
    [][\A stage \in EnrichmentStages :
          Ran(stage) =>
            /\ resultsJson'.exists
            /\ IdsOf(resultsJson'.rows) = IdsOf(resultsJson.rows)]_vars

C7_Witness ==
    /\ \A stage \in EnrichmentStages : outcome[stage] = "ok"
    /\ Len(resultsJson.rows) = 2
    /\ \E i \in 1..2 : "judge_model" \notin DOMAIN resultsJson.rows[i]
    /\ \E i \in 1..2 : "judge_model" \in DOMAIN resultsJson.rows[i]

\* C8: for a Result written by the Similarity Scorer with threshold t: when its
\* reference is non-empty, passed is exactly (similarity >= t); when its
\* reference is empty, similarity and passed are null and no embedding call was
\* made for the row.
C8_PassedIffSimilarityGeThreshold ==
    resultsJsonl.exists =>
       \A i \in 1..Len(resultsJsonl.rows) :
          LET r == resultsJsonl.rows[i]
          IN /\ r["threshold"] = args.threshold
             /\ Truthy(r["reference"]) =>
                   /\ IsNum(r["similarity"])
                   /\ r["passed"] = Bool(r["similarity"][2] >= r["threshold"][2])
                   /\ i \in calls["step4"].made
             /\ ~Truthy(r["reference"]) =>
                   /\ r["similarity"] = Null
                   /\ r["passed"] = Null
                   /\ i \notin calls["step4"].made

C8_Witness ==
    /\ outcome["step4"] = "ok"
    /\ Len(resultsJson.rows) = 2
    /\ \E i \in 1..2 :
          /\ resultsJson.rows[i]["reference"] = Str(<<>>)
          /\ resultsJson.rows[i]["passed"] = Null
    /\ \E i \in 1..2 :
          /\ resultsJson.rows[i]["similarity"] = resultsJson.rows[i]["threshold"]
          /\ resultsJson.rows[i]["passed"] = Bool(TRUE)

IsZeroVec(v) == \A i \in 1..Len(v) : v[i] = 0

\* C9: cosine is symmetric, cosine(a,b) = cosine(b,a), and is exactly 0.0
\* whenever either vector has zero norm (the empty vector included).
C9_CosineSymmetricZero ==
    fn.name = "cosine" =>
        /\ fn.out = Num(cosine(fn.in[2], fn.in[1]))
        /\ (IsZeroVec(fn.in[1]) \/ IsZeroVec(fn.in[2])) => fn.out = Num(0)

C9_Witness ==
    /\ fn.name = "cosine"
    /\ fn.in[1] = <<>>
    /\ fn.in[2] = <<1, 2>>
    /\ fn.out = Num(0)

\* C10: _normalize_score is range-bounded and idempotent: every numeric raw
\* score lands in [0,1] (a score above 1.0 is divided by 10, then clamped), a
\* score already in [0,1] is unchanged, normalizing twice equals normalizing
\* once, and 8.0 normalizes to 0.8.
C10_NormalizeIdempotentBounded ==
    (fn.name = "_normalize_score" /\ IsNum(fn.in)) =>
        /\ IsNum(fn.out)
        /\ fn.out[2] >= 0 /\ fn.out[2] <= Scale
        /\ (fn.in[2] > Scale => fn.out[2] = Min2(Scale, fn.in[2] \div 10))
        /\ (fn.in[2] >= 0 /\ fn.in[2] <= Scale => fn.out = fn.in)
        /\ _normalize_score(fn.out) = fn.out
        /\ (fn.in = Num(8 * Scale) => fn.out = Num((8 * Scale) \div 10))

C10_Witness ==
    /\ fn.name = "_normalize_score"
    /\ fn.in = Num(8 * Scale)
    /\ fn.out = Num(80)

\* C11: after the Judge Scorer, in every row deepeval_passed is a boolean exactly
\* when deepeval_score is a number, and then equals (deepeval_score >= threshold);
\* in every other case both fields are null.
C11_PassedBoolIffScoreNumber ==
    outcome["step6"] = "ok" =>
       \A i \in 1..Len(resultsJson.rows) :
          LET r == resultsJson.rows[i]
          IN /\ IsBool(r["deepeval_passed"]) <=> IsNum(r["deepeval_score"])
             /\ IsNum(r["deepeval_score"]) =>
                   r["deepeval_passed"] =
                      Bool(r["deepeval_score"][2] >= r["deepeval_threshold"][2])
             /\ ~IsNum(r["deepeval_score"]) =>
                   r["deepeval_score"] = Null /\ r["deepeval_passed"] = Null

\* the judge returned without a usable score: the row has no score but is
\* marked failed
C11_Witness ==
    /\ outcome["step6"] = "ok"
    /\ \E i \in calls["step6"].made \ calls["step6"].raised :
          /\ resultsJson.rows[i]["deepeval_score"] = Null
          /\ resultsJson.rows[i]["deepeval_passed"] = Bool(FALSE)

\* the Results whose reference and answer are both non-empty
BothNonEmpty(rows) ==
    {i \in 1..Len(rows) :
        /\ "reference" \in DOMAIN rows[i] /\ rows[i]["reference"] \notin {Null, Str(<<>>)}
        /\ "answer" \in DOMAIN rows[i] /\ rows[i]["answer"] \notin {Null, Str(<<>>)}}

\* C12: the Grounding Judge calls the judge only for Results whose reference and
\* answer are both non-empty, and for all of them when it returns; a Result with
\* an empty reference or an empty answer triggers no call and is in the output
\* with every field unchanged and no grounding field added.
C12_GroundingSkipsEmpty ==
    [][Ran("step7") =>
          LET rows == resultsJson.rows
              q == BothNonEmpty(rows)
          IN /\ calls'["step7"].made \subseteq q
             /\ outcome'["step7"] = "ok" =>
                   /\ calls'["step7"].made = q
                   /\ \A i \in q : "judge_model" \in DOMAIN resultsJson'.rows[i]
             /\ Len(resultsJson'.rows) = Len(rows)
             /\ \A i \in (1..Len(rows)) \ q : resultsJson'.rows[i] = rows[i]]_vars

C12_Witness ==
    /\ outcome["step7"] = "ok"
    /\ Len(resultsJson.rows) = 2
    /\ calls["step7"].made = {2}
    /\ resultsJson.rows[1]["answer"] = Str(<<>>)
    /\ resultsJson.rows[1]["reference"] = Str(<<"4">>)
    /\ "judge_model" \notin DOMAIN resultsJson.rows[1]
    /\ "hallucination_success" \notin DOMAIN resultsJson.rows[1]
    /\ "judge_model" \in DOMAIN resultsJson.rows[2]

\* a Result's prompt is found in the lookup built from the sheet: some sheet row
\* has the same non-blank normalized prompt
FoundIn(sheet, prompt) ==
    /\ prompt # <<>>
    /\ \E j \in 1..Len(sheet.rows) : _norm(sheet.rows[j][PROMPT_COL_XLSX]) = prompt

HasCatalogColumn(sheet) == \E c \in 1..Len(METRIC_COLUMNS) : METRIC_COLUMNS[c] \in sheet.columns

MergeRan == Ran("merge") /\ PROMPT_COL_XLSX \in metricsXlsx'.columns

\* C13 (as stated): when the merge runs on a sheet that has the prompt column, a
\* Result whose normalized prompt is not in the lookup is left untouched, the stage
\* does not fail, and the merged count equals the number of Results whose prompt
\* was found in the lookup.
C13_MergedCountIsFound ==
    [][MergeRan =>
          LET rows == resultsJson.rows
              found == {i \in 1..Len(rows) : FoundIn(metricsXlsx', MergePrompt(rows[i], scenariosJson.rows))}
          IN /\ outcome'["merge"] = "ok"
             /\ Len(resultsJson'.rows) = Len(rows)
             /\ \A i \in (1..Len(rows)) \ found : resultsJson'.rows[i] = rows[i]
             /\ MergedCount' = Cardinality(found)]_vars

\* C13 (amended): when the merge runs on a sheet that has the prompt column, a
\* Result whose normalized prompt is not in the lookup is left untouched, the stage
\* does not fail, and the merged count equals the number of Results whose prompt
\* was found in the lookup with at least one metric column to merge; a Result found
\* under a sheet with no metric column is left untouched and not counted.
C13_MergedCountIsFoundWithMetrics ==
    [][MergeRan =>
          LET rows == resultsJson.rows
              found == {i \in 1..Len(rows) : FoundIn(metricsXlsx', MergePrompt(rows[i], scenariosJson.rows))}
              merged == IF HasCatalogColumn(metricsXlsx') THEN found ELSE {}
          IN /\ outcome'["merge"] = "ok"
             /\ Len(resultsJson'.rows) = Len(rows)
             /\ \A i \in (1..Len(rows)) \ merged : resultsJson'.rows[i] = rows[i]
             /\ MergedCount' = Cardinality(merged)]_vars

\* a merge of two Results, the first found and merged, the second not found
C13_Witness ==
    /\ outcome["merge"] = "ok"
    /\ Len(resultsJson.rows) = 2
    /\ MergedCount = 1
    /\ HasCatalogColumn(metricsXlsx)
    /\ FoundIn(metricsXlsx, MergePrompt(resultsJson.rows[1], scenariosJson.rows))
    /\ ~FoundIn(metricsXlsx, MergePrompt(resultsJson.rows[2], scenariosJson.rows))
    /\ METRIC_KEYS[5] \in DOMAIN resultsJson.rows[1]
    /\ METRIC_KEYS[5] \notin DOMAIN resultsJson.rows[2]

\* the normalization the merge is described with: lowercase, newlines stripped,
\* whitespace runs collapsed
NormalizedKey(v) == Lower(_norm(v))

\* C14: the merge matches a Result with every sheet row whose prompt differs from
\* the Result's only in letter case, newlines or amount of whitespace: the two
\* have the same lookup key, and the Result receives the sheet's metric values.
C14_CaseAndSpaceVariantsMatch ==
    [][MergeRan =>
          LET rows == resultsJson.rows
              sheet == metricsXlsx'
          IN \A i \in 1..Len(rows), j \in 1..Len(sheet.rows) :
                (/\ NormalizedKey(rows[i]["prompt"]) # <<>>
                 /\ NormalizedKey(rows[i]["prompt"]) = NormalizedKey(sheet.rows[j][PROMPT_COL_XLSX]))
                => /\ MergePrompt(rows[i], scenariosJson.rows) = _norm(sheet.rows[j][PROMPT_COL_XLSX])
                   /\ HasCatalogColumn(sheet) => i \in calls'["merge"].made]_vars

\* a merge that left a Result "Hi" unmatched under a sheet whose only row is "HI"
C14_Witness ==
    /\ outcome["merge"] = "ok"
    /\ HasCatalogColumn(metricsXlsx)
    /\ \E i \in 1..Len(resultsJson.rows) :
          /\ resultsJson.rows[i]["prompt"] = Str(<<"H", "i">>)
          /\ metricsXlsx.rows[1][PROMPT_COL_XLSX] = Str(<<"H", "I">>)
          /\ i \notin calls["merge"].made
          /\ METRIC_KEYS[5] \notin DOMAIN resultsJson.rows[i]

ReportApplied == fn.name = "generate_offline_dashboard"

\* the KPI group g of the report that was produced
Kpi(g) == fn.out[2][g][2]

\* the rows of the collection whose field is a number, is a boolean, is true
NumericRows(rows, field) == {i \in 1..Len(rows) : IsNum(Get(rows[i], field, Null))}
BooleanRows(rows, field) == {i \in 1..Len(rows) : IsBool(Get(rows[i], field, Null))}
TrueRows(rows, field) == {i \in 1..Len(rows) : Get(rows[i], field, Null) = Bool(TRUE)}

\* true / boolean as a rate, null when there is no boolean
PassRate(rows, field) ==
    IF BooleanRows(rows, field) = {} THEN Null
    ELSE Num((Cardinality(TrueRows(rows, field)) * Scale) \div Cardinality(BooleanRows(rows, field)))

\* C15: for every Result collection, the empty one and those whose enrichment
\* fields (similarity, passed, deepeval_*, hallucination_*, traceability_*, the
\* latency fields, timing_ms) are absent or null on some rows, the five KPI
\* computations and the worst-10 selection complete without error, and every
\* statistic with no qualifying row is null.
C15_ReportNeverFails ==
    ReportApplied =>
       /\ ~IsRaise(fn.out)
       /\ NumericRows(fn.in, "similarity") = {} =>
             Kpi("emb").avg = Null /\ Kpi("emb").p95 = Null /\ Kpi("emb").max = Null
       /\ BooleanRows(fn.in, "passed") = {} => Kpi("emb").pass_rate = Null
       /\ (\A i \in 1..Len(fn.in) : "gen_latency_ms" \notin DOMAIN fn.in[i] /\ "timing_ms" \notin DOMAIN fn.in[i])
             => Kpi("lat").avg_gen = Null /\ Kpi("lat").p95_gen = Null /\ Kpi("lat").max_gen = Null
       /\ Kpi("beh").scored = 0 => Kpi("beh").clar_rate = Null /\ Kpi("beh").defl_rate = Null
       /\ Len(fn.out[2].worst) = Min2(WorstN, Len(fn.in))

\* a report requested for one Result whose timing_ms is null, which raised
C15_Witness ==
    /\ ReportApplied
    /\ Len(fn.in) = 1
    /\ Get(fn.in[1], "timing_ms", Map(EmptyDict)) = Null
    /\ "gen_latency_ms" \notin DOMAIN fn.in[1]
    /\ IsRaise(fn.out)

\* C16: the embedding pass-rate is the number of rows whose passed is true divided
\* by the number of rows whose passed is a boolean, rows with passed absent or null
\* counting in neither, and it is null when no row has a boolean passed; likewise
\* the judge pass-rate over deepeval_passed, in every report that has the judge group.
C16_PassRateOverBooleans ==
    (ReportApplied /\ ~IsRaise(fn.out)) =>
       /\ Kpi("emb").pass_rate = PassRate(fn.in, "passed")
       /\ Kpi("dev").available => Kpi("dev").pass_rate = PassRate(fn.in, "deepeval_passed")

\* a report over two rows, one passed and one with no verdict, whose embedding
\* pass-rate is 1 and whose judge pass-rate is 0
C16_Witness ==
    /\ ReportApplied
    /\ ~IsRaise(fn.out)
    /\ Len(fn.in) = 2
    /\ Cardinality(TrueRows(fn.in, "passed")) = 1
    /\ Cardinality(BooleanRows(fn.in, "passed")) = 1
    /\ Kpi("emb").pass_rate = Num(Scale)
    /\ Kpi("dev").available
    /\ Kpi("dev").pass_rate = Num(0)

\* the cards of the report that was produced
HasCard(card) == \E k \in 1..Len(fn.out[2].cards) : fn.out[2].cards[k] = card

\* C17: the Judge group is unavailable iff no row has a numeric deepeval_score and
\* no row has a boolean deepeval_passed; the Grounding group is unavailable iff no
\* row has hallucination_success or traceability_geval_success as a boolean; the
\* report has the group's card iff the group is available.
C17_GroupUnavailableIffNoRow ==
    (ReportApplied /\ ~IsRaise(fn.out)) =>
       /\ ~Kpi("dev").available <=>
             (NumericRows(fn.in, "deepeval_score") = {} /\ BooleanRows(fn.in, "deepeval_passed") = {})
       /\ ~Kpi("grd").available <=>
             (BooleanRows(fn.in, "hallucination_success") = {}
              /\ BooleanRows(fn.in, "traceability_geval_success") = {})
       /\ HasCard("deepeval") <=> Kpi("dev").available
       /\ HasCard("grounding") <=> Kpi("grd").available

\* a report with the Grounding card although the only grounding value of the
\* collection is the number 1
C17_Witness ==
    /\ ReportApplied
    /\ ~IsRaise(fn.out)
    /\ Len(fn.in) = 1
    /\ Get(fn.in[1], "hallucination_success", Null) = Num(Scale)
    /\ "traceability_geval_success" \notin DOMAIN fn.in[1]
    /\ Kpi("grd").available
    /\ Kpi("grd").hallucination_scored = 1
    /\ Kpi("grd").hallucination_rate = Num(0)
    /\ HasCard("grounding")

\* C18: when at least 10 rows of the collection have a numeric similarity, every
\* row returned by worst_rows(rows, 10) has a numeric similarity, whatever the
\* values and the order of the rows.
C18_WorstTenAreGraded ==
    (fn.name = "worst_rows" /\ Cardinality(NumericRows(fn.in, "similarity")) >= WorstN) =>
       \A k \in 1..Len(fn.out) : IsNum(fn.out[k]["similarity"])

\* eleven rows, ten of them graded, and the ungraded one among the worst ten
C18_Witness ==
    /\ fn.name = "worst_rows"
    /\ Cardinality(NumericRows(fn.in, "similarity")) = WorstN
    /\ Len(fn.out) = WorstN
    /\ \E k \in 1..Len(fn.out) : fn.out[k]["similarity"] = Null
    /\ \E i \in 1..Len(fn.in) : fn.in[i]["similarity"] = Num(50)

\* the provider is not recognized, or its required configuration is missing
ProviderUnusable == ~ProviderSupported(provider) \/ ~provider.configured

\* C19: with an unrecognized provider, or a recognized one whose required
\* configuration is missing, the Answer Generator fails before any per-row
\* processing: no responder is called, no Answer is produced, and the answer
\* files are neither written nor truncated.
C19_UnusableProviderFailsFirst ==
    [][(Ran("step3") /\ ProviderUnusable) =>
          /\ outcome'["step3"] = "fatal"
          /\ calls'["step3"].made = {}
          /\ answersJsonl' = answersJsonl
          /\ answersJson' = answersJson]_vars

\* the openai provider without its API key: the first row's call raised after
\* answers.jsonl had been opened for writing, leaving it empty
C19_Witness ==
    /\ provider = [name |-> "openai", configured |-> FALSE]
    /\ outcome["step3"] = "rowerror"
    /\ calls["step3"].made = {1}
    /\ answersJsonl = File(<<>>)
    /\ ~answersJson.exists

\* the envelope given to _extract_dataiku_text has a str body
HasStrBody(resp) == IsMap(resp) /\ IsStr(Get(resp[2], "body", Str(<<>>)))

\* C20: _extract_dataiku_text never raises: for every response value (null, a
\* string, a mapping with any body, a decoded payload of any JSON type, a matches
\* list with elements of any shape) it returns a string, and when decoding the
\* body fails it returns the raw body untouched.
C20_ExtractNeverRaises ==
    fn.name = "_extract_dataiku_text" =>
       /\ IsStr(fn.out)
       /\ (HasStrBody(fn.in) /\ DecodeBody(Get(fn.in[2], "body", Str(<<>>))[2]) = JsonError)
             => fn.out = Get(fn.in[2], "body", Str(<<>>))

\* the envelope whose body decodes to the number 5: the extraction raised
C20_Witness ==
    /\ fn.name = "_extract_dataiku_text"
    /\ fn.in = Map([body |-> Str(<<"5">>)])
    /\ IsRaise(fn.out)

\* the sheet has the column (every row of a sheet has the same columns)
SheetHas(rows, col) == rows # <<>> /\ col \in DOMAIN rows[1]

\* the cell is blank: empty, or whitespace only
BlankCell(v) == IsStr(v) /\ Strip(v[2]) = <<>>

\* the rows of the sheet whose prompt is not blank, in row order
RECURSIVE NonBlankPromptRows(_)
NonBlankPromptRows(rows) ==
    IF rows = <<>> THEN <<>>
    ELSE (IF BlankCell(Get(Head(rows), PROMPT_COL, Str(<<>>))) THEN <<>> ELSE <<Head(rows)>>)
         \o NonBlankPromptRows(Tail(rows))

\* C21: the Scenario Builder emits one Scenario per row whose prompt is not blank,
\* in row order, and none for a row whose prompt is empty or whitespace-only; when
\* the sheet has no id column the ids are Q_1 .. Q_k in emitted order.
C21_OneScenarioPerNonBlankRow ==
    [][Ran("step1") =>
          LET kept == NonBlankPromptRows(table)
              out == scenariosJson'.rows
          IN /\ Len(out) = Len(kept)
             /\ \A k \in 1..Len(kept) :
                   /\ out[k]["prompt"] = Str(Strip(PyStr(Get(kept[k], PROMPT_COL, Str(<<>>)))))
                   /\ ~SheetHas(table, ID_COL) => out[k]["id"] = Str(<<"Q", "_">> \o IntToStr(k))]_vars

\* a sheet of two rows, the second with a whitespace-only prompt, for which two
\* Scenarios were emitted, the second with an empty prompt
C21_Witness ==
    /\ outcome["step1"] = "ok"
    /\ Len(table) = 2
    /\ ~SheetHas(table, ID_COL)
    /\ Get(table[2], PROMPT_COL, Null) = Str(<<" ">>)
    /\ Len(scenariosJson.rows) = 2
    /\ scenariosJson.rows[2]["prompt"] = Str(<<>>)
    /\ scenariosJson.rows[2]["id"] = Str(<<"M", "C", "P", "_", "2">>)

\* C22: the Scenario ids of a run are pairwise distinct, whether synthetic or
\* derived from the id column (MCP_<raw id>), so that the id-keyed lookup of the
\* later stages gives every Answer its own Scenario.
C22_ScenarioIdsUnique ==
    scenariosJson.exists =>
        \A i, j \in 1..Len(scenariosJson.rows) :
            scenariosJson.rows[i]["id"] = scenariosJson.rows[j]["id"] => i = j

\* two rows with the same "No." gave two Scenarios with one id, and the Similarity
\* Scorer graded the first Answer against the reference of the second Scenario
C22_Witness ==
    /\ outcome["step4"] = "ok"
    /\ scenariosJson.exists /\ resultsJsonl.exists
    /\ Len(scenariosJson.rows) = 2 /\ Len(resultsJsonl.rows) = 2
    /\ scenariosJson.rows[1]["id"] = scenariosJson.rows[2]["id"]
    /\ scenariosJson.rows[1]["reference"] # scenariosJson.rows[2]["reference"]
    /\ resultsJsonl.rows[1]["reference"] = scenariosJson.rows[2]["reference"]

\* the header normalizes exactly to one of the synonyms
ExactHeader(col, synonyms) == \E k \in 1..Len(synonyms) : norm(Str(col)) = norm(Str(synonyms[k]))

\* whenever a header matches a synonym exactly, the column picked is such a header
ExactFirst(cols, synonyms, picked) ==
    (\E c \in 1..Len(cols) : ExactHeader(cols[c], synonyms)) =>
        IsStr(picked) /\ ExactHeader(picked[2], synonyms)

\* C23: column resolution tries the exact normalized header match of every synonym
\* before any substring match; and when the prompt or the reference column cannot
\* be located, the Scenario Builder fails with an error before it emits a Scenario
\* and before a later stage runs, instead of emitting Scenarios with an empty
\* prompt or reference.
C23_MissingColumnFailsBuilder ==
    [][/\ (fn'.name = "ResolveColumns" /\ ~IsRaise(fn'.out)) =>
             /\ ExactFirst(fn'.in, PromptSynonyms, fn'.out[2].prompt_col)
             /\ ExactFirst(fn'.in, ExpectedSynonyms, fn'.out[2].expected_col)
       /\ (/\ Ran("step1")
           /\ table # <<>>
           /\ ~SheetHas(table, PROMPT_COL) \/ ~SheetHas(table, REFERENCE_COL)) =>
             /\ outcome'["step1"] = "fatal"
             /\ ~scenariosJson'.exists]_vars

\* a sheet without the reference column, for which the Scenario Builder finished
\* without error and emitted a Scenario whose reference is empty
C23_Witness ==
    /\ outcome["step1"] = "ok"
    /\ table # <<>>
    /\ SheetHas(table, PROMPT_COL) /\ ~SheetHas(table, REFERENCE_COL)
    /\ scenariosJson.exists
    /\ Len(scenariosJson.rows) = Len(table)
    /\ scenariosJson.rows[1]["reference"] = Str(<<>>)

\* the header row "Question Notes", "Query" resolved with the prompt column "Query":
\* the exact match of the third synonym won over the substring match of the second
C23_WitnessExactFirst ==
    /\ fn.name = "ResolveColumns"
    /\ Len(fn.in) = 2
    /\ norm(Str(fn.in[1])) = <<"q", "u", "e", "s", "t", "i", "o", "n", " ", "n", "o", "t", "e", "s">>
    /\ norm(Str(fn.in[2])) = <<"q", "u", "e", "r", "y">>
    /\ pick_by_synonyms(ColMap(fn.in), PromptSynonyms) = Str(fn.in[2])
    /\ pick_by_substring(ColMap(fn.in), PromptSynonyms) = Str(fn.in[1])

JudgeApplied == fn.name = "judge_hallucination_traceability"

\* the reply holds a JSON object: the whole text, or its span from the first "{"
\* to the last "}", is the encoding of an object
HoldsObject(text) ==
    \E v \in ReplyValues :
        /\ IsMap(v)
        /\ \/ Strip(text) = ReplyEncodings[v]
           \/ /\ Find(text, "{") # 0
              /\ RFind(text, "}") > Find(text, "{")
              /\ SubSeq(text, Find(text, "{"), RFind(text, "}")) = ReplyEncodings[v]

\* C24: decoding the grounding judge's reply never fails the row: the text is
\* parsed whole, then from its first "{" to its last "}", and when both fail or the
\* decoded fields have unexpected types the judgment is absent (both success
\* fields null, no reason) and the row goes on.
C24_DecodingNeverFails ==
    JudgeApplied =>
        /\ ~IsRaise(fn.out)
        /\ fn.out[2]["hallucination_success"] \in {Null, Bool(TRUE), Bool(FALSE)}
        /\ ~HoldsObject(fn.in) =>
              /\ fn.out[2]["hallucination_success"] = Null
              /\ fn.out[2]["traceability_geval_success"] = Null
              /\ fn.out[2]["hallucination_reason"] \in {Null, Str(<<>>)}
              /\ fn.out[2]["traceability_geval_reason"] \in {Null, Str(<<>>)}

\* the reply {"hallucination_reason": 5}, whose decoding raised
C24_Witness ==
    /\ JudgeApplied
    /\ fn.in = JsonDumps(Map([hallucination_reason |-> Num(5)]))
    /\ IsRaise(fn.out)

TrueWords == {<<"t", "r", "u", "e">>, <<"y", "e", "s">>, <<"y">>, <<"1">>}
FalseWords == {<<"f", "a", "l", "s", "e">>, <<"n", "o">>, <<"n">>, <<"0">>}

\* the truth value the words give a text
WordValue(t) == IF t \in TrueWords THEN Bool(TRUE) ELSE IF t \in FalseWords THEN Bool(FALSE) ELSE Null

\* C25 (as stated): _as_bool maps a boolean to itself, the case-insensitive strings
\* true/yes/y/1 to true and false/no/n/0 to false, and every other value (other
\* strings, null, other types) to null, never to false.
C25_AsBoolWords ==
    fn.name = "_as_bool" =>
        fn.out = (IF IsBool(fn.in) THEN fn.in
                  ELSE IF IsStr(fn.in) THEN WordValue(Lower(fn.in[2]))
                  ELSE Null)

\* C25 (amended): the same, with the string compared after its surrounding
\* whitespace is removed.
C25_AsBoolTrimmedWords ==
    fn.name = "_as_bool" =>
        /\ fn.out = (IF IsBool(fn.in) THEN fn.in
                     ELSE IF IsStr(fn.in) THEN WordValue(Lower(Strip(fn.in[2])))
                     ELSE Null)
        /\ fn.out = Bool(FALSE) =>
              \/ fn.in = Bool(FALSE)
              \/ IsStr(fn.in) /\ Lower(Strip(fn.in[2])) \in FalseWords

\* the string " True ", padded with blanks, mapped to true
C25_Witness ==
    /\ fn.name = "_as_bool"
    /\ fn.in = Str(<<" ", "T", "r", "u", "e", " ">>)
    /\ fn.out = Bool(TRUE)

\* the rank ceil(0.95 * n), clamped to 1..n
Rank95(n) ==
    LET c == CHOOSE k \in 0..n : 100 * k >= 95 * n /\ 100 * (k - 1) < 95 * n
    IN IF c < 1 THEN 1 ELSE IF c > n THEN n ELSE c

\* x is the k-th smallest of values (1-indexed): fewer than k values are below x,
\* and at least k values are x or below
IsKthSmallest(x, k, values) ==
    /\ \E i \in 1..Len(values) : values[i] = x
    /\ Cardinality({i \in 1..Len(values) : values[i] < x}) < k
    /\ Cardinality({i \in 1..Len(values) : values[i] <= x}) >= k

\* C26: _p95 of a non-empty list of n numbers is its ceil(0.95 * n)-th smallest
\* element (1-indexed, clamped to 1..n), so an element of the list that no element
\* exceeds the maximum of; [1, 2, 3, 4, 5] gives 5; the empty list gives null.
C26_P95IsNearestRank ==
    fn.name = "_p95" =>
        /\ fn.in = <<>> => fn.out = Null
        /\ fn.in # <<>> =>
              /\ IsNum(fn.out)
              /\ IsKthSmallest(fn.out[2], Rank95(Len(fn.in)), fn.in)
              /\ fn.out[2] <= MaxSeq(fn.in)
        /\ fn.in = <<1, 2, 3, 4, 5>> => fn.out = Num(5)

\* twenty numbers 2, 3, .., 20, 1: the 19th smallest, 19, is returned, not the maximum
C26_Witness ==
    /\ fn.name = "_p95"
    /\ fn.in = Rotated(20, 1)
    /\ fn.out = Num(19)
    /\ MaxSeq(fn.in) = 20

\* the similarity by which a row is ranked: its own when it is a number, else 1.0
RankedSimilarity(r) == IF IsNum(Get(r, "similarity", Null)) THEN r["similarity"][2] ELSE Scale

\* the position in the input of the k-th row returned (the rows carry their position as id)
PlaceOf(k) == fn.out[k]["id"][2]

\* C27: worst_rows(rows, 10) returns min(10, len(rows)) rows of the input, in
\* non-decreasing order of similarity with a missing or non-numeric similarity
\* counted as 1.0, rows of equal similarity in their original order; every row
\* left out ranks no lower than every row returned.
C27_WorstRowsStableAscending ==
    fn.name = "worst_rows" =>
        LET n == Len(fn.in)
            m == Len(fn.out)
            returned == {PlaceOf(k) : k \in 1..m}
        IN /\ m = (IF n < 10 THEN n ELSE 10)
           /\ \A k \in 1..m : PlaceOf(k) \in 1..n /\ fn.out[k] = fn.in[PlaceOf(k)]
           /\ \A j, k \in 1..m :
                 j < k =>
                    \/ RankedSimilarity(fn.out[j]) < RankedSimilarity(fn.out[k])
                    \/ /\ RankedSimilarity(fn.out[j]) = RankedSimilarity(fn.out[k])
                       /\ PlaceOf(j) < PlaceOf(k)
           /\ \A i \in (1..n) \ returned : \A k \in 1..m :
                 RankedSimilarity(fn.in[i]) >= RankedSimilarity(fn.out[k])

\* eleven rows: a row without similarity ahead of a row with similarity 1.0, both
\* returned in that order after a row with 0.5, and one row left out
C27_Witness ==
    /\ fn.name = "worst_rows"
    /\ Len(fn.in) = 11
    /\ Len(fn.out) = 10
    /\ fn.in[1]["similarity"] = Null
    /\ fn.in[2]["similarity"] = Num(Scale)
    /\ fn.in[11]["similarity"] = Num(50)
    /\ fn.out[1] = fn.in[11]
    /\ fn.out[2] = fn.in[1]
    /\ fn.out[3] = fn.in[2]

\* the answer of a row is not blank: a string with a character that is no whitespace
NonBlankAnswer(r) ==
    /\ IsStr(Get(r, "answer", Null))
    /\ \E c \in 1..Len(r["answer"][2]) : r["answer"][2][c] \notin Whitespace

IsClarifying(r) ==
    /\ Contains(r["answer"][2], <<"?">>)
    /\ \E x \in ClarifyingPhrases : Contains(Lower(r["answer"][2]), x)

IsDeflecting(r) == \E p \in DeflectionPatterns : Contains(Lower(r["answer"][2]), p)

\* count / total as the report computes a rate, none when the total is zero
RateOf(count, total) == IF total = 0 THEN Null ELSE Num((count * Scale) \div total)

\* C28: the behavior KPIs are taken over exactly the rows with a non-blank answer:
\* a row is clarifying iff its answer has a "?" and a phrase of the clarification
\* set, deflecting iff it has a refusal phrase (both case-insensitive); each rate is
\* its count over the answered rows, a row may count toward both, and both rates
\* are null when no row is answered.
C28_BehaviorOverAnsweredRows ==
    (ReportApplied /\ ~IsRaise(fn.out)) =>
        LET answered == {i \in 1..Len(fn.in) : NonBlankAnswer(fn.in[i])}
            clar == {i \in answered : IsClarifying(fn.in[i])}
            defl == {i \in answered : IsDeflecting(fn.in[i])}
        IN /\ Kpi("beh").scored = Cardinality(answered)
           /\ Kpi("beh").clar_rate = RateOf(Cardinality(clar), Cardinality(answered))
           /\ Kpi("beh").defl_rate = RateOf(Cardinality(defl), Cardinality(answered))
           /\ answered = {} => Kpi("beh").clar_rate = Null /\ Kpi("beh").defl_rate = Null

\* a blank answer and a refusal that asks back: one row answered, counted toward
\* both rates
C28_Witness ==
    /\ ReportApplied /\ ~IsRaise(fn.out)
    /\ Len(fn.in) = 2
    /\ fn.in[1]["answer"] = Str(<<" ">>)
    /\ fn.in[2]["answer"] = Str(<<"A", "s", " ", "a", "n", " ", "A", "I", ",", " ", "w", "h", "a", "t", "?">>)
    /\ Kpi("beh").scored = 1
    /\ Kpi("beh").clar_rate = Num(Scale)
    /\ Kpi("beh").defl_rate = Num(Scale)

\* the payload the body of the envelope decodes to
DecodedPayload == DecodeBody(Get(fn.in[2], "body", Str(<<>>))[2])

\* the document text of a match: the text of its "document" without surrounding
\* whitespace, empty when it has none
DocumentText(m) ==
    IF IsMap(m) /\ IsStr(Get(m[2], "document", Null)) THEN Strip(m[2]["document"][2]) ELSE <<>>

\* the document texts of the matches that have one, in match order, joined by a blank line
RECURSIVE JoinedTexts(_)
JoinedTexts(ms) ==
    IF ms = <<>> THEN <<>>
    ELSE LET rest == JoinedTexts(Tail(ms))
             text == DocumentText(Head(ms))
         IN IF text = <<>> THEN rest
            ELSE IF rest = <<>> THEN text
            ELSE text \o <<"\n", "\n">> \o rest

\* C29: when the decoded payload has a non-empty matches list, the answer is the
\* document texts of at most its first five matches, joined by a blank line in
\* match order; when it has no matches list, or none of those matches has a
\* document text, the answer is the JSON string of the whole decoded payload.
C29_AnswerFromTopFiveMatches ==
    (/\ fn.name = "_extract_dataiku_text"
     /\ HasStrBody(fn.in)
     /\ DecodedPayload # JsonError
     /\ IsMap(DecodedPayload)) =>
        LET j == DecodedPayload
            matches == Get(j[2], "matches", Null)
            top == IF IsList(matches)
                   THEN SubSeq(matches[2], 1, IF Len(matches[2]) < 5 THEN Len(matches[2]) ELSE 5)
                   ELSE <<>>
        IN IF JoinedTexts(top) # <<>>
           THEN fn.out = Str(JoinedTexts(top))
           ELSE fn.out = Str(JsonDumps(j))

\* a matches list whose only element is the string "x", which has no document
\* text: the extraction raised instead of returning the JSON string of the payload
C29_Witness ==
    /\ fn.name = "_extract_dataiku_text"
    /\ HasStrBody(fn.in)
    /\ DecodedPayload = Map([matches |-> List(<<Str(<<"x">>)>>)])
    /\ IsRaise(fn.out)

\* the stages that write Answers or Results, each to a JSON array and its line stream
WriterStages == {"step3", "step4", "step6", "step7", "merge"}

\* C30: whenever a stage that writes Answers or Results (Answer Generator,
\* Similarity Scorer, Judge Scorer, Grounding Judge, External Metrics Merge)
\* finishes, with success or with an error, its JSON-array file and its
\* line-stream mirror hold the same records in the same order.
C30_MirrorsAgree ==
    [][\A stage \in WriterStages :
          Ran(stage) =>
             IF stage = "step3" THEN answersJson' = answersJsonl'
             ELSE resultsJson' = resultsJsonl']_vars

\* the Answer Generator ended on the error of its second row: the line stream
\* holds the first Answer and the JSON array was never written
C30_Witness ==
    /\ outcome["step3"] = "rowerror"
    /\ Len(scenariosJsonl.rows) = 2
    /\ answersJsonl.exists
    /\ Len(answersJsonl.rows) = 1
    /\ ~answersJson.exists

====
